---- MODULE Spec2Model ----
(***************************************************************************)
(* A model of the cricket MCP server (src/cricket_server.py): the nine     *)
(* tools, each a synchronous invocation that validates its arguments,      *)
(* searches and fetches over HTTP, extracts records from the parsed page   *)
(* and returns a value.  The network and the scraped markup are the        *)
(* environment: every request nondeterministically succeeds or raises one  *)
(* of the exception classes the handlers distinguish, and every page is    *)
(* drawn from a bounded set of documents described by what the selectors   *)
(* of the code find in them.  A second specification, TextSpec, applies  *)
(* the commentary text cleaner to bounded texts, and a third, AppSpec, is  *)
(* the chat application (src/cricket_gradio.py): UI threads that call the  *)
(* AgentManager, whose coroutines run on one event loop.                   *)
(***************************************************************************)
EXTENDS Integers, Sequences, FiniteSets, TLC

VARIABLES
    pc,      \* position of the running invocation: "idle", "done" or a step of get_live_commentary
    tool,    \* name of the tool invoked last
    args,    \* its arguments
    env,     \* what the environment served to it (search outcome, fetch outcome, page)
    result,  \* how it ended: [shape |-> "none" | "dict" | "list" | "raise", val |-> ...]
    log,     \* the requests and extraction steps of the invocation, in program order
    frame,   \* local variables of a running get_live_commentary
    ui,      \* the chat application: position of each UI thread in its handler
    tasks,   \* the coroutine each UI thread has submitted to the event loop
    agent,   \* the fields of the CricketAgent instance
    event    \* AgentManager._agent_initialized

server == <<pc, tool, args, env, result, log, frame>>

app == <<ui, tasks, agent, event>>

vars == <<pc, tool, args, env, result, log, frame, ui, tasks, agent, event>>

(***************************************************************************)
(* Bounds of the model.                                                    *)
(***************************************************************************)
MaxBlocks == 2      \* repeated blocks (rows, matches, stories, candidates) per container
MaxDays == 2        \* day groups on the schedule page
MaxLinks == 1       \* links one web search yields
MaxRankRows == 2    \* rows of one rankings panel
MaxInnings == 2     \* innings divs of a match page
MaxCalls == 2       \* handler calls of one UI thread of the chat application
MaxClears == 1      \* memories created by clear_memory

(***************************************************************************)
(* The chat application before its first request (cricket_gradio.py,       *)
(* lines 19-24, 53-58 and 129).                                            *)
(***************************************************************************)
Threads == {"ui1", "ui2"}

NoTask == [coro |-> "none", at |-> "none", ckpt |-> 0]

\* CricketAgent.__init__: client and agent are None (0), a first memory (1).
\* client and agent number the objects created so far.
NewAgent == [initialized |-> FALSE, client |-> 0, agent |-> 0, checkpointer |-> 0, memory |-> 1]

AppInit ==
    /\ ui = [t \in Threads |-> [at |-> "idle", calls |-> 0, memory |-> 0]]
    /\ tasks = [t \in Threads |-> NoTask]
    /\ agent = NewAgent
    /\ event = FALSE

(***************************************************************************)
(* Python strings, as far as the tools use them.                           *)
(***************************************************************************)
SeqUpTo(S, n) == UNION {[1..k -> S] : k \in 0..n}

Char(s, i) == SubSeq(s, i, i)

\* The n-th smallest element of a set of positions.
Nth(I, n) == CHOOSE j \in I : Cardinality({k \in I : k < j}) = n - 1

StartsWith(s, p) == Len(s) >= Len(p) /\ SubSeq(s, 1, Len(p)) = p

Contains(s, p) == \E i \in 1..(Len(s) - Len(p) + 1) : SubSeq(s, i, i + Len(p) - 1) = p

IsSpace(c) == c \in {" ", "\t", "\n"}

RECURSIVE LStrip(_)
LStrip(s) == IF Len(s) > 0 /\ IsSpace(Char(s, 1)) THEN LStrip(SubSeq(s, 2, Len(s))) ELSE s

RECURSIVE RStrip(_)
RStrip(s) == IF Len(s) > 0 /\ IsSpace(Char(s, Len(s))) THEN RStrip(SubSeq(s, 1, Len(s) - 1)) ELSE s

Strip(s) == LStrip(RStrip(s))

LowerChar(c) ==
    CASE c = "A" -> "a" [] c = "B" -> "b" [] c = "C" -> "c" [] c = "D" -> "d"
      [] c = "E" -> "e" [] c = "F" -> "f" [] c = "G" -> "g" [] c = "H" -> "h"
      [] c = "I" -> "i" [] c = "J" -> "j" [] c = "K" -> "k" [] c = "L" -> "l"
      [] c = "M" -> "m" [] c = "N" -> "n" [] c = "O" -> "o" [] c = "P" -> "p"
      [] c = "Q" -> "q" [] c = "R" -> "r" [] c = "S" -> "s" [] c = "T" -> "t"
      [] c = "U" -> "u" [] c = "V" -> "v" [] c = "W" -> "w" [] c = "X" -> "x"
      [] c = "Y" -> "y" [] c = "Z" -> "z" [] OTHER -> c

RECURSIVE Lower(_)
Lower(s) == IF Len(s) = 0 THEN "" ELSE LowerChar(Char(s, 1)) \o Lower(SubSeq(s, 2, Len(s)))

(***************************************************************************)
(* Return values.  A dict is a function from its keys; a list a sequence.  *)
(***************************************************************************)
NoResult == [shape |-> "none", val |-> <<>>]
ReturnDict(d) == [shape |-> "dict", val |-> d]
ReturnList(l) == [shape |-> "list", val |-> l]
Raise(exc) == [shape |-> "raise", val |-> exc]

EmptyDict == <<>>

\* {"error": f"{prefix}{str(e)}"}: the message is kept as its parts.
ErrorRecord(prefix, detail) == [error |-> <<prefix, detail>>]

IsErrorRecord(d) == "error" \in DOMAIN d

(***************************************************************************)
(* The fetch boundary: requests.get(...) followed by raise_for_status().   *)
(* An outcome is "ok" or the exception raised; Classes gives the handler   *)
(* classes an exception is an instance of (a connect timeout is both a     *)
(* ConnectionError and a Timeout).                                         *)
(***************************************************************************)
FetchExceptions ==
    {"ConnectionError", "ConnectTimeout", "ReadTimeout", "HTTPError", "TooManyRedirects", "Exception"}

FetchOutcomes == {"ok"} \cup FetchExceptions

Classes(e) ==
    CASE e = "ConnectionError" -> {"ConnectionError", "RequestException"}
      [] e = "ConnectTimeout" -> {"ConnectionError", "Timeout", "RequestException"}
      [] e = "ReadTimeout" -> {"Timeout", "RequestException"}
      [] e = "HTTPError" -> {"HTTPError", "RequestException"}
      [] e = "TooManyRedirects" -> {"RequestException"}
      [] OTHER -> {}

\* The except chain shared by the Cricbuzz tools: the first matching clause wins.
FetchErrorPrefix(e, generic) ==
    IF "ConnectionError" \in Classes(e) THEN "Connection error: "
    ELSE IF "Timeout" \in Classes(e) THEN "Request timeout: "
    ELSE IF "HTTPError" \in Classes(e) THEN "HTTP error: "
    ELSE generic

LogEntry(op, arg, out) == [op |-> op, arg |-> arg, out |-> out]
GET(url, out) == LogEntry("GET", url, out)

ORIGIN == "https://www.cricbuzz.com"

NoArgs == [none |-> TRUE]
NoPage == [none |-> TRUE]
\* What the environment serves to an invocation: the outcomes of its searches,
\* the outcome and the page of its page fetch, and, per search, the fetches
\* of the links found.
NoEnv == [search |-> <<>>, fetch |-> "n/a", page |-> NoPage, fetches |-> <<>>]
NoFrame == [none |-> TRUE]

\* The page served with a fetch outcome: a failed fetch has no page.
Served(out, pages) == IF out = "ok" THEN pages ELSE {NoPage}

(***************************************************************************)
(* get_cricket_schedule                                                    *)
(***************************************************************************)
Hrefs == {"", "/m/1", "https://www.cricbuzz.com/m/1"}

\* A match block of a day: its first anchor (text, href) and its venue div.
ScheduleMatchBlocks ==
    { [anchor |-> FALSE, text |-> "", href |-> "", venue |-> ""],
      [anchor |-> TRUE, text |-> " IND vs AUS ", href |-> "/m/1", venue |-> " Eden Gardens "],
      [anchor |-> TRUE, text |-> " IND vs AUS ", href |-> "https://www.cricbuzz.com/m/1", venue |-> ""],
      [anchor |-> TRUE, text |-> " IND vs AUS ", href |-> "", venue |-> " Eden Gardens "] }

ScheduleDayBlocks ==
    [date_tag : BOOLEAN, date : {" Mon "}, matches : SeqUpTo(ScheduleMatchBlocks, MaxBlocks)]

\* The day groups after the first are drawn from two fixed ones.
LaterScheduleDays ==
    { [date_tag |-> FALSE, date |-> " Mon ", matches |-> <<>>],
      [date_tag |-> TRUE, date |-> " Mon ",
       matches |-> <<CHOOSE m \in ScheduleMatchBlocks : m.anchor /\ StartsWith(m.href, "/")>>] }

SchedulePages ==
    {[container |-> FALSE, days |-> <<>>], [container |-> TRUE, days |-> <<>>]}
    \cup {[container |-> TRUE, days |-> <<first>> \o rest] :
            first \in ScheduleDayBlocks, rest \in SeqUpTo(LaterScheduleDays, MaxDays - 1)}

\* Lines 199-213: the record of one match block, or nothing when it has no anchor.
ScheduleMatch(date, match) ==
    IF match.anchor
    THEN << ("date" :> date) @@ ("description" :> Strip(match.text))
            @@ (IF match.href # "" THEN ("url" :> ORIGIN \o match.href) ELSE EmptyDict)
            @@ (IF match.venue # "" THEN ("venue" :> Strip(match.venue)) ELSE EmptyDict) >>
    ELSE <<>>

RECURSIVE ScheduleMatches(_, _)
ScheduleMatches(date, matches) ==
    IF matches = <<>> THEN <<>>
    ELSE ScheduleMatch(date, Head(matches)) \o ScheduleMatches(date, Tail(matches))

RECURSIVE ScheduleDays(_)
ScheduleDays(days) ==
    IF days = <<>> THEN <<>>
    ELSE (IF Head(days).date_tag
          THEN ScheduleMatches(Strip(Head(days).date), Head(days).matches)
          ELSE <<>>)
         \o ScheduleDays(Tail(days))

\* The extraction with a missing container read as a schedule without rows.
ScheduleExtractZeroRows(page) ==
    IF ~page.container THEN <<>> ELSE ScheduleDays(page.days)

\* Lines 186-215: the value returned for a fetched page.
ScheduleExtract(page) ==
    IF ~page.container
    THEN <<ErrorRecord("Could not find the schedule container", "")>>
    ELSE ScheduleDays(page.days)

ScheduleLink == "https://www.cricbuzz.com/cricket-schedule/upcoming-series/international"

get_cricket_schedule ==
    /\ pc = "idle"
    /\ \E out \in FetchOutcomes : \E page \in Served(out, SchedulePages) :
        /\ tool' = "get_cricket_schedule"
        /\ args' = NoArgs
        /\ env' = [NoEnv EXCEPT !.fetch = out, !.page = page]
        /\ log' = <<GET(ScheduleLink, out)>>
        /\ result' = IF out = "ok"
                     THEN ReturnList(ScheduleExtract(page))
                     ELSE ReturnList(<<ErrorRecord(FetchErrorPrefix(out, "Failed to get cricket schedule: "), out)>>)
    /\ pc' = "done"
    /\ UNCHANGED frame
    /\ UNCHANGED app

(***************************************************************************)
(* get_live_matches                                                        *)
(***************************************************************************)
LiveMatchBlocks ==
    {[description_tag |-> FALSE, text |-> "", href |-> ""]}
    \cup [description_tag : {TRUE}, text : {" IND vs AUS, 1st Test "}, href : Hrefs]

LivePages ==
    {[container |-> FALSE, matches |-> <<>>]}
    \cup [container : {TRUE}, matches : SeqUpTo(LiveMatchBlocks, MaxBlocks)]

\* Lines 350-358.
RECURSIVE LiveMatches(_)
LiveMatches(matches) ==
    IF matches = <<>> THEN <<>>
    ELSE (IF Head(matches).description_tag /\ Head(matches).href # ""
          THEN <<[match |-> Strip(Head(matches).text), url |-> ORIGIN \o Head(matches).href]>>
          ELSE <<>>)
         \o LiveMatches(Tail(matches))

\* The extraction with a page that lists no match reported as an error.
LiveExtractNoMatches(page) ==
    IF ~page.container
    THEN <<ErrorRecord("Could not find the main page wrapper", "")>>
    ELSE IF LiveMatches(page.matches) = <<>>
    THEN <<ErrorRecord("No live matches found", "")>>
    ELSE LiveMatches(page.matches)

\* Lines 343-360.
LiveExtract(page) ==
    IF ~page.container
    THEN <<ErrorRecord("Could not find the main page wrapper", "")>>
    ELSE LiveMatches(page.matches)

LiveLink == "https://www.cricbuzz.com/cricket-match/live-scores"

get_live_matches ==
    /\ pc = "idle"
    /\ \E out \in FetchOutcomes : \E page \in Served(out, LivePages) :
        /\ tool' = "get_live_matches"
        /\ args' = NoArgs
        /\ env' = [NoEnv EXCEPT !.fetch = out, !.page = page]
        /\ log' = <<GET(LiveLink, out)>>
        /\ result' = IF out = "ok"
                     THEN ReturnList(LiveExtract(page))
                     ELSE ReturnList(<<ErrorRecord(FetchErrorPrefix(out, "Failed to get live matches: "), out)>>)
    /\ pc' = "done"
    /\ UNCHANGED frame
    /\ UNCHANGED app

(***************************************************************************)
(* get_cricket_news                                                        *)
(***************************************************************************)
\* A story block: the headline anchor (with its title and href attributes,
\* "" when the attribute is missing), the intro div, the time span and the
\* category div.
NewsStoryBlocks ==
    { [headline_tag |-> TRUE, title |-> " Kohli hits ton ", href |-> "/cricket-news/1/kohli",
       description |-> " A fine innings ", timestamp |-> " 2h ago ", category |-> "2h ago * Features "],
      [headline_tag |-> TRUE, title |-> "", href |-> "https://www.cricbuzz.com/cricket-news/2",
       description |-> "", timestamp |-> "", category |-> "Features"],
      [headline_tag |-> TRUE, title |-> "Ashes preview", href |-> "",
       description |-> "", timestamp |-> "", category |-> ""],
      [headline_tag |-> FALSE, title |-> "", href |-> "",
       description |-> " A fine innings ", timestamp |-> "", category |-> ""],
      [headline_tag |-> FALSE, title |-> "", href |-> "",
       description |-> "", timestamp |-> "", category |-> "Features"],
      [headline_tag |-> FALSE, title |-> "", href |-> "",
       description |-> "", timestamp |-> "", category |-> ""] }

NewsPages ==
    {[container |-> FALSE, stories |-> <<>>]}
    \cup [container : {TRUE}, stories : SeqUpTo(NewsStoryBlocks, MaxBlocks)]

\* The bullet character U+2022 of the category text, written in ASCII.
BULLET == "*"

RECURSIVE UpToBullet(_)
UpToBullet(s) ==
    IF Len(s) = 0 \/ Char(s, 1) = BULLET THEN ""
    ELSE Char(s, 1) \o UpToBullet(SubSeq(s, 2, Len(s)))

\* category_text.split(BULLET)[1] for a text that holds the bullet.
RECURSIVE AfterBullet(_)
AfterBullet(s) ==
    IF Len(s) = 0 THEN ""
    ELSE IF Char(s, 1) = BULLET THEN UpToBullet(SubSeq(s, 2, Len(s)))
    ELSE AfterBullet(SubSeq(s, 2, Len(s)))

\* Lines 396-417: the item of one story block.
NewsItem(story) ==
    (IF story.headline_tag
     THEN ("headline" :> Strip(story.title)) @@ ("url" :> ORIGIN \o story.href)
     ELSE EmptyDict)
    @@ (IF story.description # "" THEN ("description" :> Strip(story.description)) ELSE EmptyDict)
    @@ (IF story.timestamp # "" THEN ("timestamp" :> Strip(story.timestamp)) ELSE EmptyDict)
    @@ (IF story.category # "" /\ Contains(Strip(story.category), BULLET)
        THEN ("category" :> Strip(AfterBullet(Strip(story.category))))
        ELSE EmptyDict)

\* Lines 395-420.
RECURSIVE NewsStories(_)
NewsStories(stories) ==
    IF stories = <<>> THEN <<>>
    ELSE (IF DOMAIN NewsItem(Head(stories)) # {} THEN <<NewsItem(Head(stories))>> ELSE <<>>)
         \o NewsStories(Tail(stories))

\* Lines 388-422.
NewsExtract(page) ==
    IF ~page.container
    THEN <<ErrorRecord("Could not find the news container", "")>>
    ELSE NewsStories(page.stories)

NewsLink == "https://www.cricbuzz.com/cricket-news"

get_cricket_news ==
    /\ pc = "idle"
    /\ \E out \in FetchOutcomes : \E page \in Served(out, NewsPages) :
        /\ tool' = "get_cricket_news"
        /\ args' = NoArgs
        /\ env' = [NoEnv EXCEPT !.fetch = out, !.page = page]
        /\ log' = <<GET(NewsLink, out)>>
        /\ result' = IF out = "ok"
                     THEN ReturnList(NewsExtract(page))
                     ELSE ReturnList(<<ErrorRecord(FetchErrorPrefix(out, "Failed to get cricket news: "), out)>>)
    /\ pc' = "done"
    /\ UNCHANGED frame
    /\ UNCHANGED app

(***************************************************************************)
(* get_icc_rankings                                                        *)
(***************************************************************************)
\* What find() returns when no node matches.
NONE == "<None>"

\* node.text of what find() returned: an AttributeError on None.
HasText(node) == node # NONE

Categories == {"batting", "bowling", "all-rounder", "teams", "batsmen", "Teams", ""}

\* Line 451: the list the argument is checked against.
ValidCategories == <<"batting", "bowling", "all-rounder", "teams">>

\* The check of line 451 made without regard to letter case.
ValidCategoryAnyCase(category) == \E i \in 1..Len(ValidCategories) : ValidCategories[i] = Lower(category)

\* Line 451: category in [...].
ValidCategory(category) == \E i \in 1..Len(ValidCategories) : ValidCategories[i] = category

\* Line 452.
InvalidCategoryMessage == "Invalid category. Choose from 'batting', 'bowling', 'all-rounder', 'teams'."

\* Lines 455-456.
RankingsLink(category) ==
    "https://www.cricbuzz.com/cricket-stats/icc-rankings/men/"
        \o (IF category # "all-rounder" THEN category ELSE "all-rounder")

\* Line 467.
formats == <<"test", "odi", "t20">>

\* Lines 470-476: category_map.get(category), None for a key it does not
\* hold; the f-string of line 479 formats None as "None".
category_map(category) ==
    CASE category = "batting" -> "batsmen"
      [] category = "bowling" -> "bowlers"
      [] category = "all-rounder" -> "allrounders"
      [] category = "teams" -> "teams"
      [] OTHER -> "None"

\* Lines 479-481.
format_key(category, f) == category_map(category) \o "-" \o f \o "s"

\* The ng-show keys of the three panels of a category's rankings page.
PanelKeys(category) == {format_key(category, formats[i]) : i \in 1..Len(formats)}

\* A player row: the position, rating and player-info divs, the anchor and
\* the country div inside the player info.
PlayerRows ==
    { [position |-> " 1 ", rating |-> "900", player_info |-> TRUE, a |-> "Joe Root", country |-> " ENG "],
      [position |-> NONE, rating |-> "900", player_info |-> TRUE, a |-> "Joe Root", country |-> "ENG"],
      [position |-> "2", rating |-> "880", player_info |-> FALSE, a |-> NONE, country |-> NONE],
      [position |-> "3", rating |-> "870", player_info |-> TRUE, a |-> "K Williamson", country |-> NONE] }

\* A team row: the position and name divs and the texts of its cb-col-14 divs.
TeamRows ==
    { [position |-> " 1 ", team |-> "Australia", cells |-> <<"124", " 3715 ">>],
      [position |-> "2", team |-> "India", cells |-> <<"120">>],
      [position |-> NONE, team |-> "England", cells |-> <<"105", "4000">>],
      [position |-> "4", team |-> NONE, cells |-> <<>>] }

RankRows(category) == IF category = "teams" THEN TeamRows ELSE PlayerRows

\* A rankings page: the panels present, each with its rows (the panels of
\* one page list the same rows).
RankingsPages(category) ==
    {[k \in K |-> rows] : K \in SUBSET PanelKeys(category),
                          rows \in SeqUpTo(RankRows(category), MaxRankRows)}

\* Lines 495-498: "" when the row is extracted, else the exception raised.
TeamRowFault(row) ==
    IF ~HasText(row.position) \/ ~HasText(row.team) THEN "AttributeError"
    ELSE IF Len(row.cells) < 2 THEN "IndexError"
    ELSE ""

\* Lines 500-505.
TeamRowRecord(row) ==
    [position |-> Strip(row.position), team |-> Strip(row.team),
     rating |-> Strip(row.cells[1]), points |-> Strip(row.cells[2])]

\* Lines 511-516.
PlayerRowFault(row) ==
    IF ~HasText(row.position) \/ ~HasText(row.rating) \/ ~row.player_info
       \/ ~HasText(row.a) \/ ~HasText(row.country)
    THEN "AttributeError"
    ELSE ""

\* Lines 518-523.
PlayerRowRecord(row) ==
    [position |-> Strip(row.position), player |-> Strip(row.a),
     country |-> Strip(row.country), rating |-> Strip(row.rating)]

RowFault(category, row) == IF category = "teams" THEN TeamRowFault(row) ELSE PlayerRowFault(row)

RowRecord(category, row) == IF category = "teams" THEN TeamRowRecord(row) ELSE PlayerRowRecord(row)

\* Lines 489-523: the ranking_list of one panel, [exc |-> "", val |-> list], or
\* the exception the first faulty row raises.
RECURSIVE RankingList(_, _)
RankingList(category, rows) ==
    IF rows = <<>> THEN [exc |-> "", val |-> <<>>]
    ELSE IF RowFault(category, Head(rows)) # ""
    THEN [exc |-> RowFault(category, Head(rows)), val |-> <<>>]
    ELSE LET rest == RankingList(category, Tail(rows))
         IN  [exc |-> rest.exc, val |-> <<RowRecord(category, Head(rows))>> \o rest.val]

\* Lines 478-525: the loop over the formats from index i on, rankings being
\* the dict built so far; a panel that is not on the page is passed over.
RECURSIVE RankingsLoop(_, _, _, _)
RankingsLoop(category, page, i, rankings) ==
    IF i > Len(formats) THEN [exc |-> "", val |-> rankings]
    ELSE IF format_key(category, formats[i]) \notin DOMAIN page
    THEN RankingsLoop(category, page, i + 1, rankings)
    ELSE LET list == RankingList(category, page[format_key(category, formats[i])])
         IN  IF list.exc # "" THEN [exc |-> list.exc, val |-> rankings]
             ELSE RankingsLoop(category, page, i + 1, (formats[i] :> list.val) @@ rankings)

\* Lines 529-532.
RankingsErrorPrefix(e) ==
    IF "RequestException" \in Classes(e) THEN "Request failed: " ELSE "An error occurred: "

\* Lines 464-532: the value returned for a fetched page.
RankingsExtract(category, page) ==
    LET r == RankingsLoop(category, page, 1, EmptyDict)
    IN  IF r.exc # "" THEN ErrorRecord(RankingsErrorPrefix(r.exc), r.exc) ELSE r.val

get_icc_rankings ==
    /\ pc = "idle"
    /\ \E category \in Categories :
        /\ tool' = "get_icc_rankings"
        /\ args' = [category |-> category]
        /\ IF ~ValidCategory(category)
           THEN /\ env' = NoEnv
                /\ log' = <<>>
                /\ result' = ReturnDict(ErrorRecord(InvalidCategoryMessage, ""))
           ELSE \E out \in FetchOutcomes : \E page \in Served(out, RankingsPages(category)) :
                /\ env' = [NoEnv EXCEPT !.fetch = out, !.page = page]
                /\ log' = <<GET(RankingsLink(category), out)>>
                /\ result' = IF out = "ok"
                             THEN ReturnDict(RankingsExtract(category, page))
                             ELSE ReturnDict(ErrorRecord(RankingsErrorPrefix(out), out))
    /\ pc' = "done"
    /\ UNCHANGED frame
    /\ UNCHANGED app


(***************************************************************************)
(* get_match_details                                                       *)
(***************************************************************************)
MatchUrls ==
    { "",
      "https://example.com/12345/x",
      "https://www.cricbuzz.com/live-cricket-scores/12345/ind-vs-aus",
      "https://www.cricbuzz.com/live-cricket-scores/1234567/",
      "https://www.cricbuzz.com/live-cricket-scores/1234/x",
      "https://www.cricbuzz.com/scores/12345678/x",
      "https://www.cricbuzz.com/live-cricket-scores/123456" }

DetailUrls == {u \in MatchUrls : u = "" \/ Contains(u, "/12345/")}

\* Lines 238 and 547: not match_url or "cricbuzz.com" not in match_url.
ValidMatchUrl(match_url) == match_url # "" /\ Contains(match_url, "cricbuzz.com")

\* A scorecard row is the sequence of the texts of its cells.
BattingRows ==
    { <<"Batsman", "", "R", "B", "4s", "6s", "SR">>,
      <<" V Kohli ", "c Smith b Starc", "82", "101", "9", "1", "81.2">>,
      <<"Extras", "12", "(b 4, lb 8)", "", "", "", "">>,
      <<" ", "", "", "", "", "", "">>,
      <<"R Sharma", "b Cummins", "5">> }

BowlingRows ==
    { <<"Bowler", "O", "M", "R", "W", "ECO">>,
      <<" M Starc ", "10", "1", "45", "3", "4.5">>,
      <<"P Cummins", "8">> }

InningBlocks ==
    { [title |-> NONE, batsmen |-> <<>>, bowlers_section |-> FALSE, bowlers |-> <<>>] }
    \cup [title : {" IND Innings "}, batsmen : SeqUpTo(BattingRows, MaxBlocks),
          bowlers_section : {FALSE}, bowlers : {<<>>}]
    \cup [title : {" IND Innings "}, batsmen : {<<>>},
          bowlers_section : {TRUE}, bowlers : SeqUpTo(BowlingRows, MaxBlocks)]

\* The innings after the first are drawn from two fixed ones.
LaterInnings ==
    { [title |-> NONE, batsmen |-> <<>>, bowlers_section |-> FALSE, bowlers |-> <<>>],
      [title |-> " AUS Innings ",
       batsmen |-> <<CHOOSE r \in BattingRows : Len(r) >= 7 /\ Contains(r[1], "Kohli")>>,
       bowlers_section |-> TRUE,
       bowlers |-> <<CHOOSE r \in BowlingRows : Len(r) >= 6 /\ Contains(r[1], "Starc")>>] }

MatchPages ==
    [title : {NONE, " IND vs AUS, 1st Test "}, result : {NONE, " India won by 5 wkts "},
     innings : {<<>>} \cup {<<first>> \o rest : first \in InningBlocks,
                                                rest \in SeqUpTo(LaterInnings, MaxInnings - 1)}]

\* The batting records without the test for the header row.
RECURSIVE BattingListWithHeader(_)
BattingListWithHeader(rows) ==
    IF rows = <<>> THEN <<>>
    ELSE LET cols == Head(rows)
         IN  (IF Len(cols) >= 7 /\ ~Contains(Strip(cols[1]), "Extras") /\ Strip(cols[1]) # ""
              THEN <<[player |-> Strip(cols[1]), dismissal |-> Strip(cols[2]),
                      R |-> Strip(cols[3]), B |-> Strip(cols[4]), SR |-> Strip(cols[7])]
                     @@ ("4s" :> Strip(cols[5])) @@ ("6s" :> Strip(cols[6]))>>
              ELSE <<>>)
             \o BattingListWithHeader(Tail(rows))

\* Lines 280-298: the batting records of the rows, in page order.
RECURSIVE BattingList(_)
BattingList(rows) ==
    IF rows = <<>> THEN <<>>
    ELSE LET cols == Head(rows)
         IN  (IF Len(cols) > 1 /\ Contains(Lower(cols[1]), "batsman") THEN <<>>
              ELSE IF Len(cols) >= 7
                   THEN (IF Contains(Strip(cols[1]), "Extras") \/ Strip(cols[1]) = ""
                         THEN <<>>
                         ELSE <<[player |-> Strip(cols[1]), dismissal |-> Strip(cols[2]),
                                 R |-> Strip(cols[3]), B |-> Strip(cols[4]),
                                 SR |-> Strip(cols[7])]
                                @@ ("4s" :> Strip(cols[5])) @@ ("6s" :> Strip(cols[6]))>>)
                   ELSE <<>>)
             \o BattingList(Tail(rows))

\* Lines 303-321: the bowling records of the rows, in page order.
RECURSIVE BowlingList(_)
BowlingList(rows) ==
    IF rows = <<>> THEN <<>>
    ELSE LET cols == Head(rows)
         IN  (IF Len(cols) > 1 /\ Contains(Lower(cols[1]), "bowler") THEN <<>>
              ELSE IF Len(cols) >= 6
                   THEN (IF Strip(cols[1]) = ""
                         THEN <<>>
                         ELSE <<[player |-> Strip(cols[1]), O |-> Strip(cols[2]),
                                 M |-> Strip(cols[3]), R |-> Strip(cols[4]),
                                 W |-> Strip(cols[5]), Econ |-> Strip(cols[6])]>>)
                   ELSE <<>>)
             \o BowlingList(Tail(rows))

\* Lines 272-321: inning_data of one innings div.
InningData(inning) ==
    [batting |-> BattingList(inning.batsmen),
     bowling |-> IF inning.bowlers_section THEN BowlingList(inning.bowlers) ELSE <<>>]
    @@ (IF inning.title # NONE THEN ("title" :> Strip(inning.title)) ELSE EmptyDict)

\* Lines 267-323: the scorecard, keyed inning_1, inning_2, ...
Scorecard(innings) ==
    [k \in {"inning_" \o ToString(i) : i \in 1..Len(innings)} |->
        InningData(innings[CHOOSE i \in 1..Len(innings) : k = "inning_" \o ToString(i)])]

\* Lines 255-326: match_data of a fetched page.
MatchData(page) ==
    (IF page.title # NONE THEN ("title" :> Strip(page.title)) ELSE EmptyDict)
    @@ (IF page.result # NONE THEN ("result" :> Strip(page.result)) ELSE EmptyDict)
    @@ ("scorecard" :> Scorecard(page.innings))

\* The extraction steps that follow a successful fetch.
MatchExtractSteps ==
    << LogEntry("extract", "title", ""), LogEntry("extract", "result", ""),
       LogEntry("extract", "scorecard", "") >>

\* Lines 238-326: the whole function, given what the fetch yields:
\* [ret |-> the value returned, log |-> the steps taken].
MatchDetails(match_url, out, page) ==
    IF ~ValidMatchUrl(match_url)
    THEN [ret |-> ErrorRecord("A valid Cricbuzz match URL is required.", ""), log |-> <<>>]
    ELSE IF out # "ok"
    THEN [ret |-> ErrorRecord(FetchErrorPrefix(out, "Failed to fetch or parse match page: "), out),
          log |-> <<GET(match_url, out)>>]
    ELSE [ret |-> MatchData(page), log |-> <<GET(match_url, out)>> \o MatchExtractSteps]

\* What the environment may serve to a call with this URL.
MatchServes(match_url) ==
    IF ~ValidMatchUrl(match_url) THEN {[fetch |-> "n/a", page |-> NoPage]}
    ELSE {[fetch |-> out, page |-> page] : out \in FetchExceptions, page \in {NoPage}}
         \cup [fetch : {"ok"}, page : MatchPages]

get_match_details ==
    /\ pc = "idle"
    /\ \E match_url \in DetailUrls : \E served \in MatchServes(match_url) :
        /\ tool' = "get_match_details"
        /\ args' = [match_url |-> match_url]
        /\ env' = [NoEnv EXCEPT !.fetch = served.fetch, !.page = served.page]
        /\ log' = MatchDetails(match_url, served.fetch, served.page).log
        /\ result' = ReturnDict(MatchDetails(match_url, served.fetch, served.page).ret)
    /\ pc' = "done"
    /\ UNCHANGED frame
    /\ UNCHANGED app


(***************************************************************************)
(* The search boundary: googlesearch.search(query, num_results=n).  The    *)
(* call may raise, or return an iterable that yields links and may then    *)
(* raise while it is iterated (a lazily evaluated search).                 *)
(***************************************************************************)
SearchOutcomes(universe) ==
    [links : SeqUpTo(universe, MaxLinks), fail : {"", "iter"}]
    \cup {[links |-> <<>>, fail |-> "call"]}

(***************************************************************************)
(* get_player_stats                                                        *)
(***************************************************************************)
PlayerNames == {"Virat Kohli"}

\* None, or a format name.
MatchFormats == {NONE, "", "Test", "T20"}

ProfileLinks ==
    {"https://www.cricbuzz.com/profiles/1413/virat-kohli", "https://en.wikipedia.org/wiki/Virat_Kohli"}

\* Lines 44-48: the first link of a profile page among those iterated, or NONE.
RECURSIVE FirstProfile(_)
FirstProfile(links) ==
    IF links = <<>> THEN NONE
    ELSE IF Contains(Head(links), "cricbuzz.com/profiles/") THEN Head(links)
    ELSE FirstProfile(Tail(links))

BatSummaryRows ==
    { <<" Test ", "113", "191", "8848", "11", "254", "49.1", "55.5", "15924", "991", "26", "30", "29">>,
      <<"T20", "125", "117", "4188", "31", "122", "48.7", "137.0", "3056", "369", "124", "38", "1">>,
      <<"ODI", "292", "280", "13848", "44", "183">>,
      <<>> }

BowlSummaryRows ==
    { <<"Test", "113", "11", "175", "84", "0", "0.0", "2.88", "0.0", "-/-", "-/-", "0">>,
      <<" T20 ", "125", "13", "152", "204", "4", "51.0", "8.05", "38.0", "1/13", "1/13", "0">>,
      <<"ODI", "292", "50">> }

SummaryTable(rows) == [tbody |-> TRUE, rows |-> rows]

\* A profile page on which every node the function reads is present.
GoodProfile(bat_rows, bowl_rows) ==
    [profile |-> TRUE, pc |-> TRUE, h1 |-> "Virat Kohli", h3 |-> "India",
     images |-> <<"kohli.jpg">>,
     personal |-> <<"Nov 05, 1988", "Delhi", " Batsman ">>,
     icc |-> <<" 7 ", "2", "--", "--", "--", "--">>,
     summary |-> <<SummaryTable(bat_rows), SummaryTable(bowl_rows)>>]

OneRowProfile ==
    GoodProfile(<<CHOOSE r \in BatSummaryRows : Len(r) = 13 /\ Strip(r[1]) = "Test">>,
                <<CHOOSE r \in BowlSummaryRows : Len(r) = 12 /\ Strip(r[1]) = "Test">>)

\* An img element without a src attribute.
NOSRC == "<no src>"

ProfilePages ==
    {GoodProfile(b, OneRowProfile.summary[2].rows) : b \in SeqUpTo(BatSummaryRows, MaxBlocks)}
    \cup {GoodProfile(OneRowProfile.summary[1].rows, w) : w \in SeqUpTo(BowlSummaryRows, MaxBlocks)}
    \cup { [OneRowProfile EXCEPT !.profile = FALSE, !.pc = FALSE],
           [OneRowProfile EXCEPT !.pc = FALSE],
           [OneRowProfile EXCEPT !.h1 = NONE],
           [OneRowProfile EXCEPT !.h3 = NONE],
           [OneRowProfile EXCEPT !.images = <<>>],
           [OneRowProfile EXCEPT !.images = <<NOSRC>>],
           [OneRowProfile EXCEPT !.personal = <<"Nov 05, 1988", "Delhi">>],
           [OneRowProfile EXCEPT !.icc = <<"7", "2", "--", "--", "--">>],
           [OneRowProfile EXCEPT !.summary = <<>>],
           [OneRowProfile EXCEPT !.summary = <<@[1]>>],
           [OneRowProfile EXCEPT !.summary[1].tbody = FALSE],
           [OneRowProfile EXCEPT !.summary[2].tbody = FALSE] }

\* Lines 69-131: the first exception the unguarded reads raise, "" if none.
ProfileFault(page) ==
    IF ~page.profile THEN "AttributeError"                               \* line 71
    ELSE IF ~page.pc THEN "AttributeError"                               \* line 74
    ELSE IF page.h1 = NONE \/ page.h3 = NONE THEN "AttributeError"       \* lines 74-75
    ELSE IF Len(page.images) > 0 /\ page.images[1] = NOSRC THEN "KeyError"  \* line 79
    ELSE IF Len(page.personal) < 3 THEN "IndexError"                     \* line 84
    ELSE IF Len(page.icc) < 6 THEN "IndexError"                          \* lines 88-95
    ELSE IF Len(page.summary) < 2 THEN "IndexError"                      \* lines 99-100
    ELSE IF ~page.summary[1].tbody THEN "AttributeError"                 \* line 103
    ELSE IF \E i \in 1..Len(page.summary[1].rows) : Len(page.summary[1].rows[i]) < 13
         THEN "IndexError"                                               \* lines 107-115
    ELSE IF ~page.summary[2].tbody THEN "AttributeError"                 \* line 119
    ELSE IF \E i \in 1..Len(page.summary[2].rows) : Len(page.summary[2].rows[i]) < 12
         THEN "IndexError"                                               \* lines 123-130
    ELSE ""

\* Lines 104-116: batting_stats; a later row of the same format replaces an earlier one.
RECURSIVE BattingStats(_, _)
BattingStats(rows, stats) ==
    IF rows = <<>> THEN stats
    ELSE LET cols == Head(rows)
         IN  BattingStats(Tail(rows),
                 (Lower(Strip(cols[1])) :>
                     [matches |-> Strip(cols[2]), runs |-> Strip(cols[4]),
                      highest_score |-> Strip(cols[6]), average |-> Strip(cols[7]),
                      strike_rate |-> Strip(cols[8]), hundreds |-> Strip(cols[13]),
                      fifties |-> Strip(cols[12])])
                 @@ stats)

\* Lines 120-131: bowling_stats.
RECURSIVE BowlingStats(_, _)
BowlingStats(rows, stats) ==
    IF rows = <<>> THEN stats
    ELSE LET cols == Head(rows)
         IN  BowlingStats(Tail(rows),
                 (Lower(Strip(cols[1])) :>
                     [balls |-> Strip(cols[4]), runs |-> Strip(cols[5]),
                      wickets |-> Strip(cols[6]), best_bowling_innings |-> Strip(cols[10]),
                      economy |-> Strip(cols[8]), five_wickets |-> Strip(cols[12])])
                 @@ stats)

\* Lines 133-168: the value returned for a page on which no read faults.
PlayerData(player_name, match_format, page) ==
    LET batting_stats == BattingStats(page.summary[1].rows, EmptyDict)
        bowling_stats == BowlingStats(page.summary[2].rows, EmptyDict)
        role == Strip(page.personal[3])
    IN  IF match_format # NONE /\ match_format # ""
        THEN IF Lower(match_format) \in DOMAIN batting_stats
             THEN [name |-> page.h1, country |-> page.h3, role |-> role,
                   batting_stats |-> batting_stats[Lower(match_format)],
                   bowling_stats |-> IF Lower(match_format) \in DOMAIN bowling_stats
                                     THEN bowling_stats[Lower(match_format)]
                                     ELSE EmptyDict]
             ELSE ErrorRecord("No " \o Lower(match_format) \o " stats found for ", player_name)
        ELSE [name |-> page.h1, country |-> page.h3,
              image |-> IF Len(page.images) > 0 THEN page.images[1] ELSE NONE,
              role |-> role,
              rankings |-> [batting |-> [test |-> Strip(page.icc[1]), odi |-> Strip(page.icc[2]),
                                         t20 |-> Strip(page.icc[3])],
                            bowling |-> [test |-> Strip(page.icc[4]), odi |-> Strip(page.icc[5]),
                                         t20 |-> Strip(page.icc[6])]],
              batting_stats |-> batting_stats,
              bowling_stats |-> bowling_stats]

\* What the environment serves to one invocation: a search outcome; when it
\* holds a profile link, a fetch outcome; when that is "ok", a page.
PlayerServes ==
    {[found |-> f, fetch |-> "n/a", page |-> NoPage] :
        f \in {g \in SearchOutcomes(ProfileLinks) : FirstProfile(g.links) = NONE}}
    \cup {[found |-> f, fetch |-> e, page |-> NoPage] :
        f \in {g \in SearchOutcomes(ProfileLinks) : FirstProfile(g.links) # NONE},
        e \in FetchExceptions}
    \cup {[found |-> [links |-> <<l>>, fail |-> ""], fetch |-> "ok", page |-> page] :
        l \in {m \in ProfileLinks : FirstProfile(<<m>>) # NONE}, page \in ProfilePages}

\* Lines 40-168.  The search loop stops at the first profile link, so an
\* iterable that would raise later is not iterated further.
get_player_stats ==
    /\ pc = "idle"
    /\ \E player_name \in PlayerNames, match_format \in MatchFormats :
       \E served \in PlayerServes :
       LET found == served.found
           out == served.fetch
           page == served.page
           profile_link == FirstProfile(found.links)
           query == player_name \o " cricbuzz"
       IN
        /\ tool' = "get_player_stats"
        /\ args' = [player_name |-> player_name, match_format |-> match_format]
        /\ IF profile_link = NONE
           THEN /\ env' = [NoEnv EXCEPT !.search = <<found>>]
                /\ log' = <<LogEntry("search", query, found.fail)>>
                /\ result' = IF found.fail # ""
                             THEN ReturnDict(ErrorRecord("Search failed: ", "SearchError"))
                             ELSE ReturnDict(ErrorRecord("No player profile found", ""))
           ELSE /\ env' = [NoEnv EXCEPT !.search = <<found>>, !.fetch = out, !.page = page]
                /\ log' = <<LogEntry("search", query, found.fail), GET(profile_link, out)>>
                /\ result' =
                     IF out # "ok"
                     THEN ReturnDict(ErrorRecord(FetchErrorPrefix(out, "Failed to fetch player profile: "), out))
                     ELSE IF ProfileFault(page) # "" THEN Raise(ProfileFault(page))
                     ELSE ReturnDict(PlayerData(player_name, match_format, page))
    /\ pc' = "done"
    /\ UNCHANGED frame
    /\ UNCHANGED app


(***************************************************************************)
(* web_search                                                              *)
(***************************************************************************)
Min(a, b) == IF a < b THEN a ELSE b
Max(a, b) == IF a > b THEN a ELSE b

Queries == {"", " kohli century "}
NumResults == {0, 5, 20}
SiteFilters == {NONE, "cricbuzz.com"}

ResultLinks == {"https://www.cricbuzz.com/cricket-news/1", "https://www.espncricinfo.com/story/2"}

\* A result page: the text of its title element and the content attribute
\* of its description meta element (NONE: no such element).
WebPages ==
    { [title |-> NONE, desc |-> NONE], [title |-> "", desc |-> ""],
      [title |-> " Live score ", desc |-> " Ball by ball "], [title |-> " Live score ", desc |-> NONE] }

\* What one page fetch yields.
WebFetches(exceptions, pages) ==
    {[fetch |-> e, page |-> NoPage] : e \in exceptions} \cup [fetch : {"ok"}, page : pages]

\* What the environment serves to one call: the search outcome and a fetch per link.
WebServes(universe, exceptions, pages) ==
    UNION { {[found |-> f, fetches |-> fs] : fs \in [1..Len(f.links) -> WebFetches(exceptions, pages)]}
            : f \in SearchOutcomes(universe) }

NothingServed == [found |-> [links |-> <<>>, fail |-> ""], fetches |-> <<>>]

\* Lines 708-720: the item of one link; a failed fetch leaves the URL as title.
WebSearchItem(url, f) ==
    IF f.fetch = "ok"
    THEN [url |-> url,
          title |-> IF f.page.title # NONE /\ f.page.title # "" THEN Strip(f.page.title) ELSE url,
          snippet |-> IF f.page.desc # NONE /\ f.page.desc # "" THEN Strip(f.page.desc) ELSE ""]
    ELSE [url |-> url, title |-> url, snippet |-> ""]

\* Lines 707-720.
WebSearchItems(links, fetches) == [i \in 1..Len(links) |-> WebSearchItem(links[i], fetches[i])]

\* The requests of a loop that requests a link once more when its fetch failed.
WebSearchGetsRetrying(links, fetches) ==
    [i \in 1..Len(links) |-> GET(links[i], fetches[i].fetch)]
        \o [i \in 1..Len(SelectSeq(fetches, LAMBDA f : f.fetch # "ok")) |->
                GET(links[Nth({k \in 1..Len(links) : fetches[k].fetch # "ok"}, i)], "ok")]

\* Lines 708-710: one request for each link.
WebSearchGets(links, fetches) == [i \in 1..Len(links) |-> GET(links[i], fetches[i].fetch)]

\* Lines 697-699.
WebSearchQuery(query, site_filter) ==
    IF site_filter # NONE /\ site_filter # ""
    THEN "site:" \o site_filter \o " " \o Strip(query)
    ELSE Strip(query)

\* Lines 694-722: the whole function, given what the environment serves:
\* [res |-> how it ends, log |-> the steps taken].  The search is called
\* inside the try (line 703); its result is iterated outside (line 707).
WebSearch(query, num_results, site_filter, served) ==
    IF query = NONE \/ query = ""
    THEN [res |-> ReturnList(<<ErrorRecord("query is required", "")>>), log |-> <<>>]
    ELSE LET q == WebSearchQuery(query, site_filter)
             n == Max(1, Min(num_results, 10))
             searched == <<LogEntry("search", q, served.found.fail)>>
             gets == WebSearchGets(served.found.links, served.fetches)
         IN  IF served.found.fail = "call"
             THEN [res |-> ReturnList(<<ErrorRecord("Search failed: ", "SearchError")>>),
                   log |-> searched]
             ELSE IF served.found.fail = "iter"
             THEN [res |-> Raise("SearchError"), log |-> searched \o gets]
             ELSE [res |-> ReturnList(WebSearchItems(served.found.links, served.fetches)),
                   log |-> searched \o gets]

web_search ==
    /\ pc = "idle"
    /\ \E query \in Queries, num_results \in NumResults, site_filter \in SiteFilters :
       \E served \in (IF query = "" THEN {NothingServed}
                      ELSE WebServes(ResultLinks, {"ReadTimeout", "HTTPError"}, WebPages)) :
        /\ tool' = "web_search"
        /\ args' = [query |-> query, num_results |-> num_results, site_filter |-> site_filter]
        /\ env' = IF query = "" THEN NoEnv
                  ELSE [NoEnv EXCEPT !.search = <<served.found>>, !.fetches = <<served.fetches>>]
        /\ log' = WebSearch(query, num_results, site_filter, served).log
        /\ result' = WebSearch(query, num_results, site_filter, served).res
    /\ pc' = "done"
    /\ UNCHANGED frame
    /\ UNCHANGED app

(***************************************************************************)
(* search_live_commentary                                                  *)
(***************************************************************************)
\* (match_description, team1, team2); NONE: the argument is not given.
CommentarySearchArgs ==
    { <<NONE, NONE, NONE>>, <<NONE, "India", NONE>>, <<"", NONE, "Australia">>,
      <<"IND vs AUS 1st Test", NONE, NONE>>, <<NONE, "India", "Australia">> }

\* Line 738.
CommentarySearchArgsMissing(match_description, team1, team2) ==
    (match_description = NONE \/ match_description = "")
    /\ ~(team1 # NONE /\ team1 # "" /\ team2 # NONE /\ team2 # "")

\* Lines 742-745.
CommentarySearchQuery(match_description, team1, team2) ==
    IF match_description # NONE /\ match_description # ""
    THEN "live commentary " \o match_description \o " cricket"
    ELSE "live commentary " \o team1 \o " vs " \o team2 \o " cricket"

\* Lines 752-753: the results of one search are kept unless they are an error list.
Kept(res) == IF res.val # <<>> /\ ~IsErrorRecord(res.val[1]) THEN res.val ELSE <<>>

\* The pages served to the three searches of one invocation.
CommentarySearchServes(match_description, team1, team2) ==
    IF CommentarySearchArgsMissing(match_description, team1, team2)
    THEN {[i \in 1..3 |-> NothingServed]}
    ELSE [1..3 -> WebServes({"https://www.cricbuzz.com/live-cricket-scores/12345/c"},
                            {"ConnectionError"}, {[title |-> " Live score ", desc |-> NONE]})]

\* Lines 738-765: the whole function, given what the three searches are
\* served; an exception raised by a search ends the invocation.
SearchLiveCommentary(match_description, team1, team2, served) ==
    IF CommentarySearchArgsMissing(match_description, team1, team2)
    THEN [res |-> ReturnList(<<ErrorRecord("Please provide either match_description or both team1 and team2", "")>>),
          log |-> <<>>]
    ELSE LET query == CommentarySearchQuery(match_description, team1, team2)
             cricbuzz == WebSearch(query, 3, "cricbuzz.com", served[1])
             espn == WebSearch(query, 3, "espncricinfo.com", served[2])
             general == WebSearch(query, 5, NONE, served[3])
         IN  IF cricbuzz.res.shape = "raise" THEN cricbuzz
             ELSE IF espn.res.shape = "raise"
             THEN [res |-> espn.res, log |-> cricbuzz.log \o espn.log]
             ELSE IF general.res.shape = "raise"
             THEN [res |-> general.res, log |-> cricbuzz.log \o espn.log \o general.log]
             ELSE LET results == Kept(cricbuzz.res) \o Kept(espn.res) \o Kept(general.res)
                  IN  [res |-> ReturnList(SubSeq(results, 1, Min(10, Len(results)))),
                       log |-> cricbuzz.log \o espn.log \o general.log]

search_live_commentary ==
    /\ pc = "idle"
    /\ \E a \in CommentarySearchArgs :
       LET match_description == a[1]
           team1 == a[2]
           team2 == a[3]
       IN
       \E served \in CommentarySearchServes(match_description, team1, team2) :
        /\ tool' = "search_live_commentary"
        /\ args' = [match_description |-> match_description, team1 |-> team1, team2 |-> team2]
        /\ env' = IF CommentarySearchArgsMissing(match_description, team1, team2) THEN NoEnv
                  ELSE [NoEnv EXCEPT !.search = [i \in 1..3 |-> served[i].found],
                                     !.fetches = [i \in 1..3 |-> served[i].fetches]]
        /\ log' = SearchLiveCommentary(match_description, team1, team2, served).log
        /\ result' = SearchLiveCommentary(match_description, team1, team2, served).res
    /\ pc' = "done"
    /\ UNCHANGED frame
    /\ UNCHANGED app


(***************************************************************************)
(* get_live_commentary                                                     *)
(***************************************************************************)
Limits == {-1, 0, 1, 20}

IsDigit(c) == c \in {"0", "1", "2", "3", "4", "5", "6", "7", "8", "9"}

IsUpper(c) == c # "" /\ LowerChar(c) # c

\* The number of digits of s from position i on.
RECURSIVE DigitRun(_, _)
DigitRun(s, i) == IF i <= Len(s) /\ IsDigit(Char(s, i)) THEN 1 + DigitRun(s, i + 1) ELSE 0

\* Whether r"/(\d{5,7})/" matches s at position i.
MatchIdAt(s, i) ==
    /\ Char(s, i) = "/"
    /\ DigitRun(s, i + 1) \in 5..7
    /\ i + 1 + DigitRun(s, i + 1) <= Len(s)
    /\ Char(s, i + 1 + DigitRun(s, i + 1)) = "/"

\* Lines 551-554: re.search(r"/(\d{5,7})/", match_url), its group 1 or NONE.
MatchId(s) ==
    IF \E i \in 1..Len(s) : MatchIdAt(s, i)
    THEN LET i == CHOOSE j \in 1..Len(s) : MatchIdAt(s, j) /\ \A k \in 1..(j - 1) : ~MatchIdAt(s, k)
         IN  SubSeq(s, i + 1, i + DigitRun(s, i + 1))
    ELSE NONE

\* Line 556.
ApiUrl(match_id) == "https://www.cricbuzz.com/api/cricket-match/commentary/" \o match_id

\* Line 566: re.sub(r"[A-Z]\d\$", "", text).
RECURSIVE RemoveMarkers(_)
RemoveMarkers(s) ==
    IF Len(s) = 0 THEN ""
    ELSE IF Len(s) >= 3 /\ IsUpper(Char(s, 1)) /\ IsDigit(Char(s, 2)) /\ Char(s, 3) = "$"
    THEN RemoveMarkers(SubSeq(s, 4, Len(s)))
    ELSE Char(s, 1) \o RemoveMarkers(SubSeq(s, 2, Len(s)))

\* Line 568: re.sub(r"\s+", " ", t).
RECURSIVE CollapseSpaces(_)
CollapseSpaces(s) ==
    IF Len(s) = 0 THEN ""
    ELSE IF IsSpace(Char(s, 1)) THEN " " \o CollapseSpaces(LStrip(s))
    ELSE Char(s, 1) \o CollapseSpaces(SubSeq(s, 2, Len(s)))

\* _clean_comm_text without the final strip().
CleanUntrimmed(text) == CollapseSpaces(RemoveMarkers(text))

\* Lines 564-569.
_clean_comm_text(text) == Strip(CollapseSpaces(RemoveMarkers(text)))

\* An item of the feed's commentaryList (NONE: the key is absent; the ball
\* number is written as its digits).
FeedItems ==
    { [commText |-> "B0$Good ball  I0$ by bowler", event |-> "WICKET", ballNbr |-> "12"],
      [commText |-> " B0$ ", event |-> NONE, ballNbr |-> NONE],
      [commText |-> NONE, event |-> NONE, ballNbr |-> "0"],
      [commText |-> " four runs ", event |-> NONE, ballNbr |-> "0"] }

FeedHeaders ==
    { [present |-> FALSE, matchDescription |-> NONE, status |-> NONE],
      [present |-> TRUE, matchDescription |-> "1st Test", status |-> NONE],
      [present |-> TRUE, matchDescription |-> "1st Test", status |-> "Day 2" ] }

NoHeader == CHOOSE h \in FeedHeaders : ~h.present

\* What resp.json() yields: a value that is no dict, or a dict with or
\* without a commentaryList.
FeedData ==
    { [kind |-> "list", matchHeader |-> NoHeader, has_list |-> FALSE, commentaryList |-> <<>>],
      [kind |-> "dict", matchHeader |-> NoHeader, has_list |-> FALSE, commentaryList |-> <<>>],
      [kind |-> "dict", matchHeader |-> NoHeader, has_list |-> TRUE, commentaryList |-> <<>>] }
    \cup [kind : {"dict"}, matchHeader : FeedHeaders, has_list : {TRUE},
          commentaryList : SeqUpTo(FeedItems, MaxBlocks) \ {<<>>}]

NoData == [kind |-> "none", matchHeader |-> NoHeader, has_list |-> FALSE, commentaryList |-> <<>>]

\* The feed request: the exceptions of the request and of resp.json().
FeedServes ==
    {[fetch |-> e, data |-> NoData] : e \in {"HTTPError", "JSONDecodeError"}}
    \cup [fetch : {"ok"}, data : FeedData]

\* Line 571: isinstance(data, dict) and data.get("commentaryList").
FeedUsable(data) == data.kind = "dict" /\ data.has_list /\ data.commentaryList # <<>>

\* Lines 574-579.
FeedTitle(header) ==
    IF header.present /\ header.matchDescription # NONE /\ header.status # NONE
    THEN header.matchDescription \o " - " \o header.status
    ELSE IF header.present /\ header.matchDescription # NONE THEN header.matchDescription
    ELSE IF header.present /\ header.status # NONE THEN header.status
    ELSE NONE

\* Lines 583-591: the event of one item, or nothing when its text cleans to "".
FeedEvent(item) ==
    LET text == _clean_comm_text(Strip(IF item.commText = NONE THEN "" ELSE item.commText))
    IN  IF text = "" THEN <<>>
        ELSE << [text |-> text]
                @@ (IF item.event # NONE /\ item.event # "" THEN ("event" :> item.event) ELSE EmptyDict)
                @@ (IF item.ballNbr # NONE THEN ("ball" :> item.ballNbr) ELSE EmptyDict) >>

RECURSIVE FeedEvents(_)
FeedEvents(items) ==
    IF items = <<>> THEN <<>> ELSE FeedEvent(Head(items)) \o FeedEvents(Tail(items))

\* Line 582: data.get("commentaryList", [])[: max(0, limit)].
FeedSlice(items, limit) == SubSeq(items, 1, Min(Len(items), Max(0, limit)))

\* Lines 572-597: the value returned from a usable feed.
FeedResult(match_url, limit, data) ==
    [title |-> FeedTitle(data.matchHeader), commentary_url |-> match_url,
     events |-> FeedEvents(FeedSlice(data.commentaryList, limit))]

\* Lines 547-554: the checks of the arguments; a URL with a match id leads to
\* the feed request.
get_live_commentary ==
    /\ pc = "idle"
    /\ \E match_url \in MatchUrls, limit \in Limits :
        /\ tool' = "get_live_commentary"
        /\ args' = [match_url |-> match_url, limit |-> limit]
        /\ IF ~ValidMatchUrl(match_url)
           THEN /\ result' = ReturnDict(ErrorRecord("A valid Cricbuzz match URL is required.", ""))
                /\ pc' = "done"
                /\ frame' = NoFrame
           ELSE IF MatchId(match_url) = NONE
           THEN /\ result' = ReturnDict(ErrorRecord("Could not extract match id from URL.", ""))
                /\ pc' = "done"
                /\ frame' = NoFrame
           ELSE /\ result' = NoResult
                /\ pc' = "lc_api"
                /\ frame' = [match_id |-> MatchId(match_url), commentary_url |-> NONE,
                             cpage |-> NoPage, title |-> NONE, selector |-> 0, candidates |-> <<>>]
    /\ env' = NoEnv
    /\ log' = <<>>
    /\ UNCHANGED app

\* Lines 556-597: the feed request; a usable feed is turned into the result.
lc_api ==
    /\ pc = "lc_api"
    /\ \E served \in FeedServes :
        /\ log' = Append(log, GET(ApiUrl(frame.match_id), served.fetch))
        /\ env' = [NoEnv EXCEPT !.fetch = served.fetch, !.page = served.data]
        /\ IF FeedUsable(served.data)
           THEN /\ result' = ReturnDict(FeedResult(args.match_url, args.limit, served.data))
                /\ pc' = "done"
           ELSE /\ result' = NoResult
                /\ pc' = "lc_match_page"
    /\ UNCHANGED <<tool, args, frame>>
    /\ UNCHANGED app

\* _fetch (lines 600-606) turns every exception into None.
HtmlExceptions == {"ConnectionError", "HTTPError"}

\* The anchors with an href of the match page's navigation bar (NONE: no bar).
NavAnchors ==
    { [href |-> "/live-cricket-scorecard/12345/ind-vs-aus", text |-> "Scorecard"],
      [href |-> "https://m.cricbuzz.com/cricket-commentary/12345", text |-> "Live"],
      [href |-> "/live-cricket-scores/12345/IND-VS-AUS", text |-> " Commentary "],
      [href |-> "", text |-> "Commentary"] }

MatchNavs == {[nav |-> FALSE, anchors |-> <<>>]} \cup [nav : {TRUE}, anchors : SeqUpTo(NavAnchors, MaxBlocks)]

\* Lines 616-619: the URL of the first anchor that names the commentary, or NONE.
RECURSIVE NavCommentaryUrl(_)
NavCommentaryUrl(anchors) ==
    IF anchors = <<>> THEN NONE
    ELSE LET a == Head(anchors)
         IN  IF Contains(Lower(a.href), "commentary") \/ (a.text # "" /\ Contains(Lower(a.text), "commentary"))
             THEN (IF StartsWith(a.href, "/") THEN ORIGIN \o a.href ELSE a.href)
             ELSE NavCommentaryUrl(Tail(anchors))

RECURSIVE RStripSlash(_)
RStripSlash(s) ==
    IF Len(s) > 0 /\ Char(s, Len(s)) = "/" THEN RStripSlash(SubSeq(s, 1, Len(s) - 1)) ELSE s

\* Lines 612-624.
CommentaryUrl(match_url, page) ==
    LET found == IF page.nav THEN NavCommentaryUrl(page.anchors) ELSE NONE
    IN  IF found = NONE \/ found = "" THEN RStripSlash(match_url) \o "/commentary" ELSE found

\* Lines 608-624: the match page is fetched and the commentary URL resolved.
lc_match_page ==
    /\ pc = "lc_match_page"
    /\ \E out \in {"ok"} \cup HtmlExceptions : \E page \in Served(out, MatchNavs) :
        /\ log' = Append(log, GET(args.match_url, out))
        /\ IF out # "ok"
           THEN /\ result' = ReturnDict(ErrorRecord("Failed to load match page. The match might not be live or the URL may be incorrect.", ""))
                /\ pc' = "done"
                /\ frame' = frame
           ELSE /\ result' = NoResult
                /\ pc' = "lc_commentary_page"
                /\ frame' = [frame EXCEPT !.commentary_url = CommentaryUrl(args.match_url, page)]
    /\ UNCHANGED <<tool, args, env>>
    /\ UNCHANGED app

\* The texts, get_text(" ", strip=True), of the nodes a selector may find.
NodeTexts ==
    { "",
      "4 runs",
      "Commentary - ball by ball updates",
      "Starc to Kohli, FOUR, driven through cover",
      "Kohli brings up his fifty in style" }

LiveNode == CHOOSE t \in NodeTexts : Len(t) > 20 /\ Contains(t, "over") /\ ~StartsWith(Lower(t), "commentary")

\* A commentary page, by what each selector of lines 636-649 finds on it:
\* the nodes hang where the selector numbered hit looks first (0: nowhere).
\* A div of class "cb-col cb-col-90 cb-com-ln" is also a div of class
\* cb-com-ln, and every div is among the divs of the page.
CommentaryPage(title, hit, nodes, lst) ==
    [title |-> title,
     com_ln_90 |-> IF hit = 1 THEN nodes ELSE <<>>,
     lst |-> lst \/ hit = 2,
     lst_90 |-> IF hit = 2 THEN nodes ELSE <<>>,
     p_com_ln |-> IF hit = 3 THEN nodes ELSE <<>>,
     div_com_ln |-> IF hit \in {1, 4} THEN nodes ELSE <<>>,
     divs |-> IF hit \in {1, 2, 4, 5} THEN nodes ELSE <<>>]

CommentaryPages ==
    {CommentaryPage(t, 0, <<>>, l) : t \in {NONE, " IND vs AUS - Live "}, l \in BOOLEAN}
    \cup {CommentaryPage(" IND vs AUS - Live ", h, n, FALSE) :
            h \in {1}, n \in SeqUpTo(NodeTexts, MaxBlocks) \ {<<>>}}
    \cup {CommentaryPage(" IND vs AUS - Live ", h, <<LiveNode>>, FALSE) : h \in {2, 3, 4}}
    \cup {CommentaryPage(" IND vs AUS - Live ", 5, <<t>>, FALSE) : t \in NodeTexts}

\* Lines 626-633: the commentary page is fetched and its title read.
lc_commentary_page ==
    /\ pc = "lc_commentary_page"
    /\ \E out \in {"ok"} \cup HtmlExceptions : \E page \in Served(out, CommentaryPages) :
        /\ log' = Append(log, GET(frame.commentary_url, out))
        /\ IF out # "ok"
           THEN /\ result' = ReturnDict(ErrorRecord("Failed to load commentary page. This match may not have live commentary available.", ""))
                /\ pc' = "done"
                /\ frame' = frame
           ELSE /\ result' = NoResult
                /\ pc' = "lc_select"
                /\ frame' = [frame EXCEPT !.cpage = page,
                                          !.title = IF page.title # NONE THEN Strip(page.title) ELSE NONE,
                                          !.selector = 1]
    /\ UNCHANGED <<tool, args, env>>
    /\ UNCHANGED app

SelectorNames ==
    << "div cb-col cb-col-90 cb-com-ln", "cb-com-lst children", "p cb-com-ln",
       "div cb-com-ln", "keyword scan of all divs" >>

\* Line 648: the test of the keyword scan.
KeywordHit(text) ==
    /\ text # ""
    /\ Len(text) > 20
    /\ (Contains(Lower(text), "ball") \/ Contains(Lower(text), "over") \/ Contains(Lower(text), "wicket"))

\* Lines 636-649: what selector k adds to the candidates.
Select(k, cpage) ==
    CASE k = 1 -> cpage.com_ln_90
      [] k = 2 -> IF cpage.lst THEN cpage.lst_90 ELSE <<>>
      [] k = 3 -> cpage.p_com_ln
      [] k = 4 -> cpage.div_com_ln
      [] k = 5 -> SelectSeq(cpage.divs, KeywordHit)

\* The cascade without the "if not candidates" tests: every selector runs.
AfterSelectorUnguarded(k, candidates) ==
    IF k < 5 THEN k + 1 ELSE 0

\* Lines 637, 641, 643, 645: the selector evaluated after selector k, given
\* the candidates found so far (0: none, the events are built next).
AfterSelector(k, candidates) ==
    IF candidates = <<>> /\ k < Len(SelectorNames) THEN k + 1 ELSE 0

\* Lines 635-649: one selector of the cascade is evaluated.
lc_select ==
    /\ pc = "lc_select"
    /\ LET found == frame.candidates \o Select(frame.selector, frame.cpage)
       IN  /\ log' = Append(log, LogEntry("select", SelectorNames[frame.selector],
                                          IF Select(frame.selector, frame.cpage) = <<>> THEN "none" ELSE "some"))
           /\ frame' = [frame EXCEPT !.candidates = found,
                                     !.selector = AfterSelector(frame.selector, found)]
           /\ pc' = IF AfterSelector(frame.selector, found) = 0 THEN "lc_events" ELSE "lc_select"
    /\ UNCHANGED <<tool, args, env, result>>
    /\ UNCHANGED app

\* Lines 651-665: the events of the candidates; the loop stops once the
\* list just appended to has reached the limit.
RECURSIVE HtmlEvents(_, _, _)
HtmlEvents(nodes, events, limit) ==
    IF nodes = <<>> THEN events
    ELSE LET text == Head(nodes)
         IN  IF text = "" \/ StartsWith(Lower(text), "commentary") \/ Len(text) < 10
             THEN HtmlEvents(Tail(nodes), events, limit)
             ELSE IF Len(events) + 1 >= limit
                  THEN Append(events, [text |-> text])
                  ELSE HtmlEvents(Tail(nodes), Append(events, [text |-> text]), limit)

\* What the fallback call of get_match_details (line 671) may be served.
FallbackServes ==
    { [fetch |-> "ConnectionError", page |-> NoPage],
      [fetch |-> "ok", page |-> [title |-> " IND vs AUS, 1st Test ", result |-> NONE, innings |-> <<>>]] }

EmptyNote == "No commentary items found. This match may not be live or commentary may not be available."

\* Lines 667-678: the result for the events; without events the note is
\* added and the match details, when they can be had, are attached.
HtmlResult(commentary_url, title, events, match_info) ==
    [title |-> title, commentary_url |-> commentary_url, events |-> events]
    @@ (IF events = <<>>
        THEN ("note" :> EmptyNote)
             @@ (IF ~IsErrorRecord(match_info)
                 THEN ("fallback" :> "Commentary not available, but here's the match details:")
                      @@ ("match_details" :> match_info)
                 ELSE EmptyDict)
        ELSE EmptyDict)

\* Lines 651-678: the events are built and the result returned.
lc_events ==
    /\ pc = "lc_events"
    /\ LET events == HtmlEvents(frame.candidates, <<>>, args.limit)
       IN  \E served \in (IF events = <<>> THEN FallbackServes ELSE {[fetch |-> "n/a", page |-> NoPage]}) :
           LET details == MatchDetails(args.match_url, served.fetch, served.page)
           IN  /\ log' = IF events = <<>> THEN log \o details.log ELSE log
               /\ result' = ReturnDict(HtmlResult(frame.commentary_url, frame.title, events, details.ret))
    /\ pc' = "done"
    /\ UNCHANGED <<tool, args, env, frame>>
    /\ UNCHANGED app


(***************************************************************************)
(* The caller takes the returned value; the server is ready for the next   *)
(* invocation.                                                             *)
(***************************************************************************)
Reset ==
    /\ pc = "done"
    /\ pc' = "idle"
    /\ tool' = "none"
    /\ args' = NoArgs
    /\ env' = NoEnv
    /\ result' = NoResult
    /\ log' = <<>>
    /\ frame' = NoFrame
    /\ UNCHANGED app

Init ==
    /\ pc = "idle"
    /\ tool = "none"
    /\ args = NoArgs
    /\ env = NoEnv
    /\ result = NoResult
    /\ log = <<>>
    /\ frame = NoFrame
    /\ AppInit

Next ==
    \/ get_cricket_schedule
    \/ get_live_matches
    \/ get_cricket_news
    \/ get_icc_rankings
    \/ get_match_details
    \/ get_player_stats
    \/ web_search
    \/ search_live_commentary
    \/ get_live_commentary
    \/ lc_api
    \/ lc_match_page
    \/ lc_commentary_page
    \/ lc_select
    \/ lc_events
    \/ Reset

Spec == Init /\ [][Next]_vars

----------------------------------------------------------------------------
\* _clean_comm_text as a function of its input text (lines 564-569): the
\* input is drawn from the texts over Alphabet of at most MaxTextLen
\* characters and from the feed texts, the function is applied to it, and
\* then applied once more to its own output.

MaxTextLen == 6

\* An uppercase letter, a digit, the dollar sign, a whitespace character and
\* a lowercase letter.
Alphabet == {"B", "0", "$", " ", "a"}

RECURSIVE Join(_)
Join(q) == IF Len(q) = 0 THEN "" ELSE Head(q) \o Join(Tail(q))

Texts ==
    {Join(q) : q \in SeqUpTo(Alphabet, MaxTextLen)}
        \cup {"B0$Good ball I0$ by bowler", " W1$ OUT!  caught\tbehind \n", "a \n\t b"}

Cleaned(text) == [shape |-> "text", val |-> text]

TextInit ==
    /\ pc = "idle"
    /\ tool = "_clean_comm_text"
    /\ args \in {[text |-> t] : t \in Texts}
    /\ env = NoEnv
    /\ result = NoResult
    /\ log = <<>>
    /\ frame = NoFrame
    /\ AppInit

\* _clean_comm_text(args.text).
clean_comm_text ==
    /\ pc = "idle"
    /\ tool = "_clean_comm_text"
    /\ pc' = "done"
    /\ result' = Cleaned(_clean_comm_text(args.text))
    /\ UNCHANGED <<tool, args, env, log, frame>>
    /\ UNCHANGED app

\* _clean_comm_text applied to its own output.
clean_again ==
    /\ pc = "done"
    /\ tool = "_clean_comm_text"
    /\ pc' = "again"
    /\ args' = [text |-> result.val]
    /\ result' = Cleaned(_clean_comm_text(result.val))
    /\ UNCHANGED <<tool, env, log, frame>>
    /\ UNCHANGED app

TextNext ==
    \/ clean_comm_text
    \/ clean_again

TextSpec == TextInit /\ [][TextNext]_vars

----------------------------------------------------------------------------
(***************************************************************************)
(* The chat application (src/cricket_gradio.py).  Each UI thread runs one  *)
(* handler at a time; a handler submits coroutines to the event loop of    *)
(* the AgentManager and blocks on their results (lines 31-34).  The loop   *)
(* runs one coroutine at a time up to its next await; an awaited call      *)
(* completes at any later time.  clear_memory runs in the UI thread.       *)
(***************************************************************************)

\* The loop thread is not inside the synchronous stretch of lines 77-88, so
\* it can resume or start a coroutine.
LoopFree == \A u \in Threads : tasks[u].at # "create_react_agent"

\* The UI thread t moves to position at.
Goto(t, at) == [ui EXCEPT ![t].at = at]

\* Lines 131-138 and 42-44: a message arrives; the handler calls
\* AgentManager.ask_question, which starts with initialize_agent.
process_cricket_query(t) ==
    /\ ui[t].at = "idle"
    /\ ui[t].calls < MaxCalls
    /\ ui' = [ui EXCEPT ![t] = [at |-> "initialize_agent", calls |-> @.calls + 1, memory |-> 0]]
    /\ UNCHANGED <<tasks, agent, event>>
    /\ UNCHANGED server

\* Lines 36-39: the event is tested; if it is not set, agent.initialize()
\* is submitted to the loop and the thread waits for it.
initialize_agent(t) ==
    /\ ui[t].at = "initialize_agent"
    /\ IF event
       THEN /\ ui' = Goto(t, "ask_question")
            /\ tasks' = tasks
       ELSE /\ ui' = Goto(t, "wait_initialize")
            /\ tasks' = [tasks EXCEPT ![t] = [coro |-> "initialize", at |-> "start", ckpt |-> 0]]
    /\ UNCHANGED <<agent, event>>
    /\ UNCHANGED server

\* Lines 62-74: the loop starts initialize(): it returns at once if the
\* agent is initialized, else it creates the client and awaits get_tools.
initialize(t) ==
    /\ LoopFree
    /\ tasks[t].coro = "initialize"
    /\ tasks[t].at = "start"
    /\ IF agent.initialized
       THEN /\ tasks' = [tasks EXCEPT ![t].at = "returned"]
            /\ agent' = agent
       ELSE /\ tasks' = [tasks EXCEPT ![t].at = "get_tools"]
            /\ agent' = [agent EXCEPT !.client = @ + 1]
    /\ UNCHANGED <<ui, event>>
    /\ UNCHANGED server

\* Lines 74-87: get_tools completes and the loop thread calls
\* create_react_agent with the memory of that moment as the checkpointer,
\* or get_tools raises.  Until the call has returned the loop runs no other
\* coroutine, while the UI threads go on.
get_tools(t) ==
    /\ LoopFree
    /\ tasks[t].at = "get_tools"
    /\ \/ tasks' = [tasks EXCEPT ![t].at = "create_react_agent", ![t].ckpt = agent.memory]
       \/ tasks' = [tasks EXCEPT ![t].at = IF tasks[t].coro = "initialize" THEN "raised" ELSE "returned"]
    /\ UNCHANGED <<ui, agent, event>>
    /\ UNCHANGED server

\* Lines 83-88: the created agent is stored and initialized is set; inside
\* ask_question (line 94) the coroutine goes on to the invocation.
create_react_agent(t) ==
    /\ tasks[t].at = "create_react_agent"
    /\ agent' = [agent EXCEPT !.agent = @ + 1, !.checkpointer = tasks[t].ckpt, !.initialized = TRUE]
    /\ tasks' = [tasks EXCEPT ![t].at = IF tasks[t].coro = "initialize" THEN "returned" ELSE "ainvoke"]
    /\ UNCHANGED <<ui, event>>
    /\ UNCHANGED server

\* Lines 39-40 and 144-147: the future of initialize() is done; the event
\* is set, or the exception leaves initialize_agent and the handler ends.
initialized(t) ==
    /\ ui[t].at = "wait_initialize"
    /\ tasks[t].at \in {"returned", "raised"}
    /\ ui' = Goto(t, IF tasks[t].at = "returned" THEN "ask_question" ELSE "idle")
    /\ event' = (event \/ tasks[t].at = "returned")
    /\ tasks' = [tasks EXCEPT ![t] = NoTask]
    /\ UNCHANGED agent
    /\ UNCHANGED server

\* Line 45: agent.ask_question(...) is submitted and the thread waits.
ask_question(t) ==
    /\ ui[t].at = "ask_question"
    /\ ui' = Goto(t, "wait_ask_question")
    /\ tasks' = [tasks EXCEPT ![t] = [coro |-> "ask_question", at |-> "start", ckpt |-> 0]]
    /\ UNCHANGED <<agent, event>>
    /\ UNCHANGED server

\* Lines 92-114: the loop starts ask_question(): an agent that is not
\* initialized is initialized first (lines 93-94, 62-74); then the react
\* agent is invoked.
ask_question_start(t) ==
    /\ LoopFree
    /\ tasks[t].coro = "ask_question"
    /\ tasks[t].at = "start"
    /\ IF agent.initialized
       THEN /\ tasks' = [tasks EXCEPT ![t].at = "ainvoke"]
            /\ agent' = agent
       ELSE /\ tasks' = [tasks EXCEPT ![t].at = "get_tools"]
            /\ agent' = [agent EXCEPT !.client = @ + 1]
    /\ UNCHANGED <<ui, event>>
    /\ UNCHANGED server

\* Lines 111-120: the invocation completes with an answer or an exception,
\* which becomes the text returned.
ainvoke(t) ==
    /\ LoopFree
    /\ tasks[t].at = "ainvoke"
    /\ tasks' = [tasks EXCEPT ![t].at = "returned"]
    /\ UNCHANGED <<ui, agent, event>>
    /\ UNCHANGED server

\* Lines 45 and 138-143: the answer is appended to the chat history.
answered(t) ==
    /\ ui[t].at = "wait_ask_question"
    /\ tasks[t].at = "returned"
    /\ ui' = Goto(t, "idle")
    /\ tasks' = [tasks EXCEPT ![t] = NoTask]
    /\ UNCHANGED <<agent, event>>
    /\ UNCHANGED server

\* Lines 149-151 and 47-50: clear_chat; the memory is cleared only if the
\* event is set.
clear_chat(t) ==
    /\ ui[t].at = "idle"
    /\ ui[t].calls < MaxCalls
    /\ event => agent.memory + Cardinality({u \in Threads : ui[u].at = "clear_memory"}) <= MaxClears
    /\ ui' = [ui EXCEPT ![t] = [at |-> IF event THEN "clear_memory" ELSE "idle",
                                calls |-> @.calls + 1, memory |-> 0]]
    /\ UNCHANGED <<tasks, agent, event>>
    /\ UNCHANGED server

\* Line 124: self.memory = InMemorySaver().
clear_memory(t) ==
    /\ ui[t].at = "clear_memory"
    /\ agent' = [agent EXCEPT !.memory = @ + 1]
    /\ ui' = Goto(t, "if_agent")
    /\ UNCHANGED <<tasks, event>>
    /\ UNCHANGED server

\* Lines 125-126: if self.agent, the right-hand side self.memory is read;
\* another thread may run before the value is stored.
if_agent(t) ==
    /\ ui[t].at = "if_agent"
    /\ ui' = IF agent.agent # 0
             THEN [ui EXCEPT ![t].at = "checkpointer", ![t].memory = agent.memory]
             ELSE Goto(t, "idle")
    /\ UNCHANGED <<tasks, agent, event>>
    /\ UNCHANGED server

\* Line 126: the value read is stored as the checkpointer of self.agent.
checkpointer(t) ==
    /\ ui[t].at = "checkpointer"
    /\ agent' = [agent EXCEPT !.checkpointer = ui[t].memory]
    /\ ui' = [ui EXCEPT ![t].at = "idle", ![t].memory = 0]
    /\ UNCHANGED <<tasks, event>>
    /\ UNCHANGED server

AppNext ==
    \/ \E t \in Threads : process_cricket_query(t)
    \/ \E t \in Threads : initialize_agent(t)
    \/ \E t \in Threads : initialize(t)
    \/ \E t \in Threads : get_tools(t)
    \/ \E t \in Threads : create_react_agent(t)
    \/ \E t \in Threads : initialized(t)
    \/ \E t \in Threads : ask_question(t)
    \/ \E t \in Threads : ask_question_start(t)
    \/ \E t \in Threads : ainvoke(t)
    \/ \E t \in Threads : answered(t)
    \/ \E t \in Threads : clear_chat(t)
    \/ \E t \in Threads : clear_memory(t)
    \/ \E t \in Threads : if_agent(t)
    \/ \E t \in Threads : checkpointer(t)

AppSpec == Init /\ [][AppNext]_vars


(***************************************************************************)
(* Properties of the tools.  A state with pc = "done" holds the arguments, *)
(* what the environment served, the steps taken and the outcome of one     *)
(* finished invocation.                                                    *)
(***************************************************************************)
Done(t) == pc = "done" /\ tool = t

\* The message of an error record.
Message(d) == d.error[1] \o d.error[2]

Returned == result.shape \in {"dict", "list"}

\* A list of exactly one element, an error record.
SingleError(res) == res.shape = "list" /\ Len(res.val) = 1 /\ IsErrorRecord(res.val[1])

PageTools == {"get_cricket_schedule", "get_live_matches", "get_cricket_news"}

ListTools == PageTools \cup {"web_search", "search_live_commentary"}

FourCategories == {"batting", "bowling", "all-rounder", "teams"}

\* C1: every invocation of every tool, whatever the search, the fetch and
\* the page yield, ends by returning a value and never with an exception
\* that leaves the tool.
C1_NeverUnhandled == pc = "done" => Returned

\* C2: for a category outside the four valid ones get_icc_rankings returns
\* an error record whose message names each of the four valid categories,
\* and the invocation issues no HTTP request.
C2_InvalidCategoryRejected ==
    Done("get_icc_rankings") /\ args.category \notin FourCategories =>
        /\ result.shape = "dict"
        /\ IsErrorRecord(result.val)
        /\ \A c \in FourCategories : Contains(Message(result.val), "'" \o c \o "'")
        /\ \A i \in 1..Len(log) : log[i].op # "GET"

C2_Witness ==
    /\ Done("get_icc_rankings")
    /\ args.category = "Teams"
    /\ IsErrorRecord(result.val)
    /\ log = <<>>

\* C3: for a valid category and a fetched rankings page, a result of
\* get_icc_rankings that is no error record has exactly the keys test, odi
\* and t20.
C3_ExactlyThreeFormats ==
    /\ Done("get_icc_rankings")
    /\ args.category \in FourCategories
    /\ env.fetch = "ok"
    /\ result.shape = "dict"
    /\ ~IsErrorRecord(result.val)
    => DOMAIN result.val = {"test", "odi", "t20"}

\* An invocation of a list tool that failed: the arguments were rejected,
\* the page could not be fetched, or the search (every one of the three
\* searches of search_live_commentary) failed.
InvocationFailed ==
    CASE tool \in PageTools -> env.fetch # "ok"
      [] tool = "web_search" -> args.query = "" \/ env.search[1].fail # ""
      [] tool = "search_live_commentary" ->
            \/ CommentarySearchArgsMissing(args.match_description, args.team1, args.team2)
            \/ \A i \in 1..3 : env.search[i].fail # ""
      [] OTHER -> FALSE

\* C4: a list tool whose invocation failed returns a list of exactly one
\* element, an error record; what a failed invocation returns is never the
\* empty list and never a list of domain records.
C4_FailureIsSingleError ==
    pc = "done" /\ tool \in ListTools /\ InvocationFailed => SingleError(result)

\* C5: in get_match_details every fetch failure of the Timeout kind, a
\* connect timeout included, gives an error record whose message starts
\* with "Request timeout:", and no title, result or scorecard is extracted.
C5_TimeoutKind ==
    Done("get_match_details") /\ "Timeout" \in Classes(env.fetch) =>
        /\ IsErrorRecord(result.val)
        /\ StartsWith(Message(result.val), "Request timeout:")
        /\ \A i \in 1..Len(log) : log[i].op # "extract"

\* A step of the HTML fallback of get_live_commentary: a page request other
\* than the feed request, a selector, or an extraction.
IsHtmlStep(e) ==
    \/ e.op \in {"select", "extract"}
    \/ e.op = "GET" /\ e.arg # ApiUrl(MatchId(args.match_url))

SelectorIndex(name) == CHOOSE k \in 1..Len(SelectorNames) : SelectorNames[k] = name

\* C6: in get_live_commentary the feed is requested before any HTML page;
\* HTML pages are fetched and selectors evaluated only if the feed request
\* failed or its commentaryList is absent or empty; and the selectors run
\* in their fixed order, a selector only after every earlier one found no
\* candidate.
C6_FeedFirstThenCascade ==
    tool = "get_live_commentary" =>
        /\ \A i \in 1..Len(log) : IsHtmlStep(log[i]) =>
              /\ i > 1
              /\ log[1].op = "GET"
              /\ log[1].arg = ApiUrl(MatchId(args.match_url))
              /\ \/ log[1].out # "ok"
                 \/ ~env.page.has_list
                 \/ env.page.commentaryList = <<>>
        /\ \A i \in 1..Len(log) : log[i].op = "select" =>
              /\ \A j \in 1..(SelectorIndex(log[i].arg) - 1) :
                    \E h \in 1..(i - 1) : log[h] = LogEntry("select", SelectorNames[j], "none")
              /\ \A h \in 1..(i - 1) : log[h].op = "select" =>
                    SelectorIndex(log[h].arg) < SelectorIndex(log[i].arg)

C6_Witness ==
    /\ Done("get_live_commentary")
    /\ \E i \in 1..Len(log) : log[i] = LogEntry("select", SelectorNames[5], "some")
    /\ result.val.events # <<>>

\* C7: a result of get_live_commentary that is no error record carries the
\* note exactly when its events are empty, on the feed path and on the HTML
\* path alike.
C7_NoteIffEmpty ==
    Done("get_live_commentary") /\ ~IsErrorRecord(result.val) =>
        ((result.val.events = <<>>) <=> ("note" \in DOMAIN result.val))

\* C8: for every limit, on the feed path and on the HTML path, the events
\* returned by get_live_commentary number at most max(0, limit).
C8_LimitBoundsEvents ==
    Done("get_live_commentary") /\ ~IsErrorRecord(result.val) =>
        Len(result.val.events) <= Max(0, args.limit)

\* The page of a page tool was fetched and lacks the list's container.
ContainerAbsent == pc = "done" /\ tool \in PageTools /\ env.fetch = "ok" /\ ~env.page.container

\* Lines 189, 345 and 391.
ContainerMessage(t) ==
    CASE t = "get_cricket_schedule" -> "Could not find the schedule container"
      [] t = "get_live_matches" -> "Could not find the main page wrapper"
      [] t = "get_cricket_news" -> "Could not find the news container"

\* C9, as stated: when the page was fetched and the container is absent,
\* get_cricket_schedule, get_live_matches and get_cricket_news return the
\* empty list and no error record.
C9_MissingContainerIsEmptyList == ContainerAbsent => result = ReturnList(<<>>)

\* C9, amended: when the page was fetched and the container is absent, the
\* three tools return a list of exactly one element, the error record that
\* says which container could not be found.
C9_MissingContainerIsError ==
    ContainerAbsent => SingleError(result) /\ Message(result.val[1]) = ContainerMessage(tool)

C9_Witness ==
    /\ Done("get_cricket_schedule")
    /\ env.fetch = "ok"
    /\ ~env.page.container
    /\ Len(result.val) = 1

\* The container of the fetched page holds no block of the repeated pattern.
NoBlocks ==
    CASE tool = "get_cricket_schedule" -> \A i \in 1..Len(env.page.days) : env.page.days[i].matches = <<>>
      [] tool = "get_live_matches" -> env.page.matches = <<>>
      [] tool = "get_cricket_news" -> env.page.stories = <<>>

\* C10: when the container is present and holds no child block, the three
\* tools return the empty list and no error record.
C10_NoBlocksIsEmptyList ==
    pc = "done" /\ tool \in PageTools /\ env.fetch = "ok" /\ env.page.container /\ NoBlocks
        => result = ReturnList(<<>>)

C10_Witness ==
    /\ Done("get_live_matches")
    /\ env.fetch = "ok"
    /\ env.page.container
    /\ env.page.matches = <<>>
    /\ result.val = <<>>

\* The resolution of a scraped href against the origin: the origin is
\* prefixed to a root-relative href, any other href is left as it is.
ResolveUrl(href) == IF StartsWith(href, "/") THEN ORIGIN \o href ELSE href

\* C11: the URL a tool returns for a scraped href (a schedule entry, a live
\* match, a news item, the commentary link of the navigation bar) is the
\* origin followed by the href if the href starts with "/", and the href
\* itself otherwise.  Stated for pages that hold one block with an href.
C11_OriginPrefixedIffRootRelative ==
    /\ Done("get_cricket_schedule") /\ env.fetch = "ok" /\ env.page.container
       /\ Len(env.page.days) = 1 /\ env.page.days[1].date_tag
       /\ Len(env.page.days[1].matches) = 1 /\ env.page.days[1].matches[1].anchor
       /\ env.page.days[1].matches[1].href # ""
       => result.val[1].url = ResolveUrl(env.page.days[1].matches[1].href)
    /\ Done("get_live_matches") /\ env.fetch = "ok" /\ env.page.container
       /\ Len(env.page.matches) = 1 /\ env.page.matches[1].description_tag
       /\ env.page.matches[1].href # ""
       => result.val[1].url = ResolveUrl(env.page.matches[1].href)
    /\ Done("get_cricket_news") /\ env.fetch = "ok" /\ env.page.container
       /\ Len(env.page.stories) = 1 /\ env.page.stories[1].headline_tag
       /\ env.page.stories[1].href # ""
       => result.val[1].url = ResolveUrl(env.page.stories[1].href)
    /\ tool = "get_live_commentary" /\ pc \in {"lc_commentary_page", "lc_select", "lc_events"}
       => ~StartsWith(frame.commentary_url, ORIGIN \o "http")

\* Whether the marker pattern (an uppercase letter, a digit, "$") matches s
\* at position i.
MarkerAt(s, i) ==
    /\ i >= 1 /\ i + 2 <= Len(s)
    /\ IsUpper(Char(s, i)) /\ IsDigit(Char(s, i + 1)) /\ Char(s, i + 2) = "$"

\* The positions of s inside an occurrence of the marker pattern.  Two
\* occurrences never overlap (the second and third character of one are not
\* uppercase letters), so the leftmost non-overlapping occurrences are all
\* the occurrences.
MarkerPositions(s) == {j \in 1..Len(s) : \E i \in (j - 2)..j : MarkerAt(s, i)}

\* The characters of s at the positions K from position i on, in order, a
\* whitespace character written as one space.
RECURSIVE Pick(_, _, _)
Pick(s, K, i) ==
    IF i > Len(s) THEN ""
    ELSE (IF i \notin K THEN "" ELSE IF IsSpace(Char(s, i)) THEN " " ELSE Char(s, i))
             \o Pick(s, K, i + 1)

\* The positions of s that are not whitespace, and of each whitespace run
\* that has a non-whitespace character on both sides its last position.
WordPositions(s) ==
    {j \in 1..Len(s) :
        \/ ~IsSpace(Char(s, j))
        \/ /\ j < Len(s) /\ ~IsSpace(Char(s, j + 1))
           /\ \E k \in 1..(j - 1) : ~IsSpace(Char(s, k))}

\* The text the claim describes: the markers deleted, then every whitespace
\* run replaced by one space and the ends trimmed.
MarkersDeleted(s) ==
    LET K == (1..Len(s)) \ MarkerPositions(s)
    IN  Join([n \in 1..Cardinality(K) |->
            Char(s, CHOOSE j \in K : Cardinality({k \in K : k < j}) = n - 1)])

Expected(text) == LET d == MarkersDeleted(text) IN Pick(d, WordPositions(d), 1)

\* C12: _clean_comm_text returns its input with every occurrence of the
\* marker pattern deleted, every whitespace run replaced by one space and
\* the ends trimmed; "B0$Good ball I0$ by bowler" gives "Good ball by bowler".
C12_CleanDeletesMarkersAndCollapses ==
    pc \in {"done", "again"} /\ tool = "_clean_comm_text" =>
        /\ result.val = Expected(args.text)
        /\ args.text = "B0$Good ball I0$ by bowler" => result.val = "Good ball by bowler"

C12_Witness ==
    /\ pc = "done" /\ tool = "_clean_comm_text"
    /\ args.text = "B0$Good ball I0$ by bowler"
    /\ result.val = "Good ball by bowler"

\* The records of the rows at the positions I, in page order.
RecordsAt(rows, I, Rec(_)) == [n \in 1..Cardinality(I) |-> Rec(rows[Nth(I, n)])]

BattingHeader(cols) == Len(cols) > 1 /\ Contains(Lower(cols[1]), "batsman")

BowlingHeader(cols) == Len(cols) > 1 /\ Contains(Lower(cols[1]), "bowler")

\* The rows of players: not a header row, the full number of columns, a
\* player name that is not empty and (batting) not the Extras line.
BattingPlayers(rows) ==
    {i \in 1..Len(rows) : /\ ~BattingHeader(rows[i]) /\ Len(rows[i]) >= 7
                          /\ Strip(rows[i][1]) # "" /\ ~Contains(Strip(rows[i][1]), "Extras")}

BowlingPlayers(rows) ==
    {i \in 1..Len(rows) : ~BowlingHeader(rows[i]) /\ Len(rows[i]) >= 6 /\ Strip(rows[i][1]) # ""}

BattingRecord(cols) ==
    [player |-> Strip(cols[1]), dismissal |-> Strip(cols[2]), R |-> Strip(cols[3]),
     B |-> Strip(cols[4]), SR |-> Strip(cols[7])]
    @@ ("4s" :> Strip(cols[5])) @@ ("6s" :> Strip(cols[6]))

BowlingRecord(cols) ==
    [player |-> Strip(cols[1]), O |-> Strip(cols[2]), M |-> Strip(cols[3]),
     R |-> Strip(cols[4]), W |-> Strip(cols[5]), Econ |-> Strip(cols[6])]

ScorecardExtracted ==
    Done("get_match_details") /\ ValidMatchUrl(args.match_url) /\ env.fetch = "ok"

Requests == {i \in 1..Len(log) : log[i].op = "GET"}

FailedRequests == {i \in Requests : log[i].out # "ok"}

\* The result is an error record, or a list that starts with one.
ReportsError ==
    \/ result.shape = "dict" /\ IsErrorRecord(result.val)
    \/ result.shape = "list" /\ result.val # <<>> /\ IsErrorRecord(result.val[1])

\* No request that failed is issued again later in the invocation.
NoFailedRequestRepeated ==
    \A i \in FailedRequests : \A j \in Requests : j > i => log[j].arg # log[i].arg

OnePageTools ==
    PageTools \cup {"get_icc_rankings", "get_match_details", "get_player_stats"}

RECURSIVE LinksYielded(_, _)
LinksYielded(searches, i) ==
    IF i > Len(searches) THEN <<>>
    ELSE searches[i].links
            \o (IF searches[i].fail = "iter" THEN <<>> ELSE LinksYielded(searches, i + 1))

FailureKind(e) ==
    CASE e = "ConnectionError" -> "connection"
      [] e = "ReadTimeout" -> "timeout"
      [] e = "HTTPError" -> "http"
      [] e = "Exception" -> "generic"
      [] OTHER -> "none"

KindExceptions == {"ConnectionError", "ReadTimeout", "HTTPError", "Exception"}

\* The exception that failed the fetch of the invocation's page, "none" if
\* there is none or it is of no single kind.
PageFailure ==
    IF tool \in OnePageTools
    THEN (IF env.fetch \in KindExceptions THEN env.fetch ELSE "none")
    ELSE IF tool = "get_live_commentary" /\ Len(log) = 2 /\ log[2].out \in KindExceptions
    THEN log[2].out
    ELSE "none"

\* The message prefix of the error record a tool returns when the fetch of
\* its page fails with exception e.
FailurePrefix(t, e) ==
    CASE t = "get_cricket_schedule" -> FetchErrorPrefix(e, "Failed to get cricket schedule: ")
      [] t = "get_live_matches" -> FetchErrorPrefix(e, "Failed to get live matches: ")
      [] t = "get_cricket_news" -> FetchErrorPrefix(e, "Failed to get cricket news: ")
      [] t = "get_match_details" -> FetchErrorPrefix(e, "Failed to fetch or parse match page: ")
      [] t = "get_player_stats" -> FetchErrorPrefix(e, "Failed to fetch player profile: ")
      [] t = "get_icc_rankings" -> RankingsErrorPrefix(e)
      [] t = "get_live_commentary" ->
            "Failed to load match page. The match might not be live or the URL may be incorrect."

ErrorPrefix == IF result.shape = "list" THEN result.val[1].error[1] ELSE result.val.error[1]

\* C15: in every tool that fetches a page the four kinds of fetch failure
\* give four distinguishable error results: the prefix of the error record
\* returned for a failure of one kind is not the prefix the tool returns for
\* a failure of another kind.
C15_FailureKindsDistinguishable ==
    pc = "done" /\ PageFailure # "none" =>
        /\ ReportsError
        /\ ErrorPrefix = FailurePrefix(tool, PageFailure)
        /\ \A e \in KindExceptions :
               FailureKind(e) # FailureKind(PageFailure) => FailurePrefix(tool, e) # ErrorPrefix

\* The invocation met no failure: its arguments were accepted, its search
\* and its page fetch succeeded and the extraction found what it requires.
Succeeded ==
    CASE tool \in PageTools -> env.fetch = "ok" /\ env.page.container
      [] tool = "web_search" -> args.query # "" /\ env.search[1].fail = ""
      [] tool = "search_live_commentary" ->
            /\ ~CommentarySearchArgsMissing(args.match_description, args.team1, args.team2)
            /\ \E i \in 1..3 : env.search[i].fail = ""
      [] tool = "get_icc_rankings" ->
            /\ ValidCategory(args.category) /\ env.fetch = "ok"
            /\ RankingsLoop(args.category, env.page, 1, EmptyDict).exc = ""
      [] tool = "get_match_details" -> ValidMatchUrl(args.match_url) /\ env.fetch = "ok"
      [] tool = "get_player_stats" ->
            /\ env.fetch = "ok"
            /\ \/ args.match_format \in {NONE, ""}
               \/ Lower(args.match_format) \in DOMAIN BattingStats(env.page.summary[1].rows, EmptyDict)
      [] tool = "get_live_commentary" ->
            /\ ValidMatchUrl(args.match_url) /\ MatchId(args.match_url) # NONE
            /\ FailedRequests \cap {2, 3} = {}

\* C16: the key "error" marks failure and nothing else.  The result of a
\* failed invocation has the key "error" at its top level (a dict) or in its
\* first element (a list); the result of a successful one has it neither at
\* its top level nor in any element, whatever the page contains.
C16_ErrorKeyMarksFailure ==
    pc = "done" /\ Returned =>
        /\ ~Succeeded => ReportsError
        /\ Succeeded =>
              /\ ~ReportsError
              /\ result.shape = "list" => \A i \in 1..Len(result.val) : ~IsErrorRecord(result.val[i])

\* C17: however the ask_question calls of concurrent UI threads interleave,
\* the body of CricketAgent.initialize that creates the MCP client and the
\* agent runs at most once in the life of the process: no second react
\* agent is ever created.
C17_InitializeBodyAtMostOnce == agent.agent <= 1

\* A fetched team-rankings page whose rows all have their position and
\* name, and a fetched profile page on which nothing but the number of
\* cells of a summary row can be missing.
TeamPageFetched ==
    /\ Done("get_icc_rankings") /\ args.category = "teams" /\ env.fetch = "ok"
    /\ \A k \in DOMAIN env.page : \A i \in 1..Len(env.page[k]) :
           HasText(env.page[k][i].position) /\ HasText(env.page[k][i].team)

ProfilePageFetched ==
    /\ Done("get_player_stats") /\ env.fetch = "ok"
    /\ Len(env.page.summary) = 2
    /\ env.page = GoodProfile(env.page.summary[1].rows, env.page.summary[2].rows)

\* C18: a row with fewer cells than the highest index read is skipped.  A
\* team-rankings row with fewer than two rating cells, a summary row of a
\* player with fewer than 13 (batting) or 12 (bowling) cells and a scorecard
\* row with fewer than 7 or 6 cells give no record and no index error, and
\* the other rows are still extracted.
C18_ShortRowsSkipped ==
    /\ TeamPageFetched =>
           /\ ~IsErrorRecord(result.val)
           /\ \A f \in 1..Len(formats) :
                  format_key("teams", formats[f]) \in DOMAIN env.page =>
                      LET rows == env.page[format_key("teams", formats[f])]
                      IN  result.val[formats[f]]
                              = RecordsAt(rows, {i \in 1..Len(rows) : Len(rows[i].cells) >= 2},
                                          TeamRowRecord)
    /\ ProfilePageFetched =>
           /\ Returned
           /\ args.match_format \in {NONE, ""} =>
                  DOMAIN result.val.batting_stats
                      = {Lower(Strip(env.page.summary[1].rows[i][1])) :
                            i \in {j \in 1..Len(env.page.summary[1].rows) :
                                      Len(env.page.summary[1].rows[j]) >= 13}}
    /\ ScorecardExtracted => Returned /\ ~IsErrorRecord(result.val)

\* The number of blocks of a fetched list page from which a record can be
\* extracted: a schedule match with its anchor under a day with its date, a
\* live match with a described link, a story with any of its fields.
ExtractableBlocks ==
    CASE tool = "get_cricket_schedule" ->
            Cardinality({<<d, m>> \in (1..Len(env.page.days)) \X (1..MaxBlocks) :
                            /\ env.page.days[d].date_tag
                            /\ m <= Len(env.page.days[d].matches)
                            /\ env.page.days[d].matches[m].anchor})
      [] tool = "get_live_matches" ->
            Cardinality({m \in 1..Len(env.page.matches) :
                            env.page.matches[m].description_tag /\ env.page.matches[m].href # ""})
      [] tool = "get_cricket_news" ->
            Cardinality({n \in 1..Len(env.page.stories) :
                            LET story == env.page.stories[n]
                            IN  \/ story.headline_tag \/ story.description # ""
                                \/ story.timestamp # "" \/ Contains(story.category, BULLET)})

\* C19: in every list extraction a block from which a required field cannot
\* be extracted is skipped and the records of the other blocks are returned;
\* the list is never replaced by an error because of one block.  The page
\* tools return one record for each extractable block, and get_icc_rankings
\* returns for each panel the records of its rows that have all their
\* fields, in page order.
C19_DefectiveBlockSkipped ==
    /\ pc = "done" /\ tool \in PageTools /\ env.fetch = "ok" /\ env.page.container =>
           /\ \A i \in 1..Len(result.val) : ~IsErrorRecord(result.val[i])
           /\ Len(result.val) = ExtractableBlocks
    /\ Done("get_icc_rankings") /\ ValidCategory(args.category) /\ env.fetch = "ok" =>
           /\ ~IsErrorRecord(result.val)
           /\ \A f \in 1..Len(formats) :
                  format_key(args.category, formats[f]) \in DOMAIN env.page =>
                      LET rows == env.page[format_key(args.category, formats[f])]
                      IN  result.val[formats[f]]
                              = RecordsAt(rows, {i \in 1..Len(rows) : RowFault(args.category, rows[i]) = ""},
                                          LAMBDA r : RowRecord(args.category, r))

HasMarker(s) == \E i \in 1..Len(s) : MarkerAt(s, i)

\* C20: the output of _clean_comm_text holds no occurrence of the marker
\* pattern, and _clean_comm_text applied to its own output returns that
\* output unchanged.
C20_CleanIsIdempotent ==
    tool = "_clean_comm_text" =>
        /\ pc \in {"done", "again"} => ~HasMarker(result.val)
        /\ pc = "again" => result.val = args.text

\* No call is in progress: every UI thread is between handlers and the
\* loop holds no coroutine.
Quiescent == \A t \in Threads : ui[t].at = "idle" /\ tasks[t] = NoTask

\* C21: after any interleaving of ask_question and clear_chat calls of
\* concurrent UI threads, once no call is in progress the checkpointer of
\* the agent, if the agent exists, is the current memory of the
\* CricketAgent; a completed clear_chat leaves the agent on the fresh memory.
C21_CheckpointerIsCurrentMemory ==
    Quiescent /\ agent.agent # 0 => agent.checkpointer = agent.memory

====
